---- MODULE Spec2Model ----
(***************************************************************************)
(* State-machine model of the rover's real-time capture/command pipeline:  *)
(*   - MotorController (motor_controller.py): submissions, command queue,  *)
(*     drain thread, serial framing;                                       *)
(*   - RoverSystem.handle_control_command (main.py): control dispatch;     *)
(*   - the bounded frame buffers of CameraManager / AudioProcessor;        *)
(*   - WebRTCSignalingServer (webrtc_service.py): the peer registry.       *)
(*                                                                         *)
(* All public MotorController methods are called from one thread (the      *)
(* asyncio event-loop thread), so each of them is one atomic action,       *)
(* except disconnect(), which blocks in join() while the drain thread      *)
(* keeps running.  The drain thread (_command_loop) is modelled step by    *)
(* step; its critical section (with queue_lock) is one atomic step.        *)
(***************************************************************************)
EXTENDS Integers, Sequences, FiniteSets, Bags, TLC

\* ------------------------------------------------------------------ bounds
MaxSubmit == 3      \* commands appended to the queue in one run
MaxConnects == 1    \* successful connect() calls in one run
MaxWriteFailures == 1   \* failed serial writes in one run

\* Speeds the operator sends in the main specification (300 is clamped).
SpeedInputs == {150}
\* (left, right) arguments of set_motor_speed in the main specification.
PairInputs == {<<-300, 75>>}

None == <<>>

Last(s) == s[Len(s)]

\* -------------------------------------------------------------- variables
VARIABLES
    \* MotorController fields
    is_connected, is_running, serial_port, command_thread,
    left_speed, right_speed, current_direction,
    commands_sent, command_errors, command_queue,
    \* the drain threads ever started, and the caller's position
    threads, main_pc,
    \* the serial link and the history of the run
    wire, submitted, popped, estop, last_call,
    \* the control message handled last and whether the handler raised
    ctl,
    \* the speed codec exercised on its own: inputs and encoded bytes
    codec_in, codec_out,
    \* CameraManager: the two cameras, the capture thread, the buffers
    camera, frame_count, error_count, cam_running, cam_pc, frame_buffer,
    \* what initialize() read and returned, the devices the loop has read,
    \* and what the latest-frame getters returned
    cam_cfg, cam_init, touched, got, stop_signalled,
    \* how often each camera's device was released, and where the caller
    \* of CameraManager.shutdown() is
    releases, cam_caller,
    \* AudioProcessor: the input stream, the capture thread, the buffer
    stream_in, audio_running, audio_pc, captured_frames, capture_errors,
    capture_buffer,
    \* WebRTCSignalingServer: the registry, the hook, the connections made,
    \* the state-change handler tasks of each, and what happened to them
    peers, on_peer_disconnected, conns, handlers, teardown, hook_calls, escaped,
    \* the latest close_peer_connection() call made by the application and
    \* what the peer-gone hook found in the registry when it was last invoked
    last_close, hook_saw,
    \* RoverSystem: its flags, the position of its caller, and the order in
    \* which shutdown() reached the components
    rover, order,
    \* the handle_offer() call made last: its peer id, the connection it
    \* created and what it returned
    last_offer,
    \* the iterations the drain loop has begun, and in which of them a
    \* frame was written or the queue was found empty
    ticks, tick_log,
    \* AudioProcessor's playback side: the thread field, the playback
    \* threads that are live, the buffer, and the caller of stop_playback()
    playback,
    \* the capture threads CameraManager has started (each one's position),
    \* its capture_thread field, the cameras closed, and where the caller of
    \* stop_capture() / shutdown() is
    capture,
    \* which submissions were in the queue when disconnect() was called
    \* (pending), and which of them were still unwritten when a later
    \* connect() succeeded (stale)
    link_log,
    \* queue_lock: who holds it, where the submitting caller is in
    \* _send_motor_command and the command it is about to append
    lock,
    \* WebRTCSignalingServer.shutdown(): where its caller is, the peer ids
    \* it still has to close, the close() calls that raised; and the
    \* connections on whose behalf the peer-gone hook was invoked
    signaling

mvars == <<is_connected, is_running, serial_port, command_thread,
           left_speed, right_speed, current_direction,
           commands_sent, command_errors, command_queue,
           threads, main_pc, wire, submitted, popped, estop,
           last_call>>

cvars == <<codec_in, codec_out>>

camvars == <<camera, frame_count, error_count, cam_running, cam_pc, frame_buffer,
             cam_cfg, cam_init, touched, got, stop_signalled>>

devvars == <<releases, cam_caller>>

audvars == <<stream_in, audio_running, audio_pc, captured_frames,
             capture_errors, capture_buffer>>

pvars == <<peers, on_peer_disconnected, conns, handlers, teardown, hook_calls,
           escaped, last_close, hook_saw>>

ovars == <<rover, order>>

tvars == <<ticks, tick_log>>

xvars == <<capture, link_log, lock, signaling>>

hvars == <<last_offer, tvars, playback, xvars>>

vars == <<mvars, ctl, cvars, camvars, devvars, audvars, pvars, ovars, hvars>>

\* Steps of one component leave the others alone.
MotorOnly == UNCHANGED <<ctl, cvars, camvars, devvars, audvars, pvars, ovars, hvars>>
DispatchOnly == UNCHANGED <<cvars, camvars, devvars, audvars, pvars, ovars, hvars>>
CodecOnly == UNCHANGED <<mvars, ctl, camvars, devvars, audvars, pvars, ovars, hvars>>
MediaOnly == UNCHANGED <<mvars, ctl, cvars, devvars, pvars, ovars, hvars>>
CameraOnly == UNCHANGED <<mvars, ctl, cvars, audvars, pvars, ovars, hvars>>
PeerOnly == UNCHANGED <<mvars, ctl, cvars, camvars, devvars, audvars, ovars, hvars>>

\* ------------------------------------------------------- serial framing
RECURSIVE Xor(_, _)
\* Python's ^ on non-negative integers.
Xor(a, b) ==
    IF a = 0 THEN b
    ELSE IF b = 0 THEN a
    ELSE (((a % 2) + (b % 2)) % 2) + 2 * Xor(a \div 2, b \div 2)

Min(a, b) == IF a <= b THEN a ELSE b
Max(a, b) == IF a >= b THEN a ELSE b

\* An encoder whose negative branch is off by one.
SpeedToByteOffByOne(speed) ==
    IF speed >= 0 THEN Min(255, speed) ELSE 255 + speed

\* MotorController._speed_to_byte
speed_to_byte(speed) ==
    IF speed >= 0 THEN Min(255, speed) ELSE 256 + speed

RECURSIVE XorFold(_, _)
\* checksum = 0; for byte in frame: checksum ^= byte
XorFold(frame, checksum) ==
    IF frame = <<>> THEN checksum
    ELSE XorFold(Tail(frame), Xor(checksum, Head(frame)))

\* A frame whose checksum leaves out the first sync byte.
BuildFrameShortSum(l, r) ==
    LET head == <<170, 85, speed_to_byte(l), speed_to_byte(r)>>
    IN  Append(head, XorFold(Tail(head), 0))

\* The frame _transmit_command builds: bytearray([0xAA, 0x55, l, r]) + checksum.
BuildFrame(l, r) ==
    LET head == <<170, 85, speed_to_byte(l), speed_to_byte(r)>>
    IN  Append(head, XorFold(head, 0))

\* bytearray() accepts only values in range(256); anything else raises.
FrameBytesValid(l, r) ==
    /\ speed_to_byte(l) \in 0..255
    /\ speed_to_byte(r) \in 0..255

\* ---------------------------------------------------------------- Init
InitMotor ==
    /\ is_connected = FALSE
    /\ is_running = FALSE
    /\ serial_port = "none"
    /\ command_thread = 0
    /\ left_speed = 0
    /\ right_speed = 0
    /\ current_direction = "STOP"
    /\ commands_sent = 0
    /\ command_errors = 0
    /\ command_queue = <<>>
    /\ threads = <<>>
    /\ main_pc = "idle"
    /\ wire = <<>>
    /\ submitted = <<>>
    /\ popped = 0
    /\ estop = [called |-> FALSE, tog |-> FALSE, connected |-> FALSE,
                pending |-> {}, inflight |-> FALSE, wlen |-> 0, nsub |-> 0,
                msg |-> FALSE]
    /\ last_call = [op |-> "none", arg |-> None]
    /\ ctl = [msg |-> None, tog |-> FALSE, raised |-> FALSE]

\* The codec is idle in the specifications of the running system.
InitCodec == codec_in = None /\ codec_out = None

\* ------------------------------------------------ bounded frame buffers
Cams == {"front", "rear"}

FrameBufferLen == 3
CaptureBufferLen == 10

\* Frames are numbered from 1 in the order the device delivers them; the
\* getters return None when the buffer is empty.
NoFrame == 0

\* read_frame logs a warning once error_count exceeds this.
ErrorThreshold == 10

\* CameraManager.__init__ and AudioProcessor.__init__
InitMedia ==
    /\ camera = [c \in Cams |-> "none"]
    /\ frame_count = [c \in Cams |-> 0]
    /\ error_count = [c \in Cams |-> 0]
    /\ cam_running = FALSE
    /\ cam_pc = "none"
    /\ frame_buffer = [c \in Cams |-> <<>>]
    /\ cam_cfg = [enabled |-> [c \in Cams |-> TRUE], opens |-> [c \in Cams |-> FALSE]]
    /\ cam_init = "none"
    /\ touched = [c \in Cams |-> FALSE]
    /\ got = [buf |-> "none", frame |-> NoFrame]
    /\ stop_signalled = FALSE
    /\ releases = [c \in Cams |-> 0]
    /\ cam_caller = "idle"
    /\ capture = [loops |-> <<>>, capture_thread |-> 0, closed |-> {},
                  caller |-> "idle", callback_errors |-> 0]
    /\ link_log = [pending |-> {}, stale |-> {}]
    /\ lock = [owner |-> "free", thread |-> 0, caller_pc |-> "idle",
               cmd |-> None]
    /\ signaling = [pc |-> "idle", todo |-> {}, close_errors |-> 0,
                    hooked |-> EmptyBag]
    /\ stream_in = "none"
    /\ audio_running = FALSE
    /\ audio_pc = "none"
    /\ captured_frames = 0
    /\ capture_errors = 0
    /\ capture_buffer = <<>>

\* ------------------------------------------------------ peer registry
PeerIds == {"p1", "p2"}

\* WebRTCSignalingServer.__init__: an empty registry, no hooks.  A peer id
\* that is not a key of self.peers maps to 0.
InitPeers ==
    /\ peers = [p \in PeerIds |-> 0]
    /\ on_peer_disconnected = FALSE
    /\ conns = <<>>
    /\ handlers = <<>>
    /\ teardown = <<>>
    /\ hook_calls = [p \in PeerIds |-> 0]
    /\ escaped = FALSE
    /\ last_close = [peer |-> "none", present |-> FALSE, n |-> 0]
    /\ hook_saw = [conn |-> 0, present |-> FALSE, closed |-> FALSE]
    /\ last_offer = [peer |-> "none", conn |-> 0, pc |-> "none", answer |-> FALSE]
    /\ ticks = 0
    /\ tick_log = [wrote |-> <<>>, empty |-> {}]
    /\ playback = [thread |-> "none", live |-> 0, buffer |-> <<>>,
                   frames |-> 0, taken |-> 0, caller |-> "idle",
                   returned |-> FALSE]

\* RoverSystem.__init__: nothing initialized, nothing running.
InitRover ==
    /\ rover = [pc |-> "new", is_initialized |-> FALSE, is_running |-> FALSE,
                result |-> "none",
                collab |-> [audio |-> FALSE, motor |-> FALSE, encoder |-> FALSE],
                todo |-> {}]
    /\ order = <<>>

Init == InitMotor /\ InitCodec /\ InitMedia /\ InitPeers /\ InitRover

\* ------------------------------------------------------ MotorController
\* connect(): open the serial port, then start a drain thread.  A failed
\* open raises inside the try block and leaves every field as it was.
Connect(ok) ==
    /\ main_pc = "idle"
    /\ IF ok
       THEN /\ serial_port' = "open"
            /\ is_connected' = TRUE
            /\ is_running' = TRUE
            /\ threads' = Append(threads, [pc |-> "check", cmd |-> None, idx |-> 0])
            /\ command_thread' = Len(threads) + 1
       ELSE UNCHANGED <<serial_port, is_connected, is_running, threads, command_thread>>
    /\ UNCHANGED <<left_speed, right_speed, current_direction, commands_sent,
                   command_errors, command_queue, main_pc, wire, submitted,
                   popped, estop, last_call>>

\* A submit that appends whether or not the link is connected.
QueueAfterSendAlways(l, r) == Append(command_queue, <<l, r>>)

\* _send_motor_command: the new queue and submission history.
QueueAfterSend(l, r) ==
    IF is_connected THEN Append(command_queue, <<l, r>>) ELSE command_queue

SubmittedAfterSend(l, r) ==
    IF is_connected THEN Append(submitted, <<l, r>>) ELSE submitted

_send_motor_command(l, r) ==
    /\ command_queue' = QueueAfterSend(l, r)
    /\ submitted' = SubmittedAfterSend(l, r)

Clamp(lo, hi, x) == Max(lo, Min(hi, x))

\* What each motion method stores in (left_speed, right_speed) and submits.
ForwardPair(speed) == LET s == Clamp(0, 255, speed) IN <<s, s>>
BackwardPair(speed) == LET s == Clamp(0, 255, speed) IN <<-s, -s>>
\* turn_left with the two sides exchanged.
TurnLeftPairSwapped(speed) == LET s == Clamp(0, 255, speed) IN <<s, s \div 2>>
TurnLeftPair(speed) == LET s == Clamp(0, 255, speed) IN <<s \div 2, s>>
TurnRightPair(speed) == LET s == Clamp(0, 255, speed) IN <<s, s \div 2>>
\* set_motor_speed without its two clamps.
SetPairUnclamped(l, r) == <<l, r>>

SetPair(l, r) == <<Clamp(-255, 255, l), Clamp(-255, 255, r)>>

\* The body shared by the motion methods: set the state, then submit.
Motion(op, arg, pair, dir) ==
    /\ last_call' = [op |-> op, arg |-> arg]
    /\ left_speed' = pair[1]
    /\ right_speed' = pair[2]
    /\ current_direction' = dir
    /\ _send_motor_command(pair[1], pair[2])
    /\ UNCHANGED <<is_connected, is_running, serial_port, command_thread,
                   commands_sent, command_errors, threads, wire, popped>>

\* A call made by the caller's thread while it is not blocked in join().
Idle == main_pc = "idle" /\ UNCHANGED main_pc

move_forward(speed) == Idle /\ Motion("move_forward", speed, ForwardPair(speed), "FORWARD") /\ UNCHANGED estop
move_backward(speed) == Idle /\ Motion("move_backward", speed, BackwardPair(speed), "BACKWARD") /\ UNCHANGED estop
turn_left(speed) == Idle /\ Motion("turn_left", speed, TurnLeftPair(speed), "LEFT") /\ UNCHANGED estop
turn_right(speed) == Idle /\ Motion("turn_right", speed, TurnRightPair(speed), "RIGHT") /\ UNCHANGED estop
stop == Idle /\ Motion("stop", None, <<0, 0>>, "STOP") /\ UNCHANGED estop
\* set_motor_speed leaves current_direction alone.
set_motor_speed(l, r) ==
    Idle /\ Motion("set_motor_speed", <<l, r>>, SetPair(l, r), current_direction) /\ UNCHANGED estop

\* Is some drain thread holding a popped command it has not yet written?
InFlight == \E t \in 1..Len(threads) : threads[t].pc = "tx"

\* The history record of an emergency_stop() call: the moment of the call.
EStopRecord(viaMsg) ==
    [called |-> TRUE, tog |-> ~estop.tog, connected |-> is_connected,
     pending |-> (popped + 1)..Len(submitted), inflight |-> InFlight,
     wlen |-> Len(wire), nsub |-> Len(SubmittedAfterSend(0, 0)),
     msg |-> viaMsg]

\* emergency_stop() logs a warning and calls stop().
EmergencyStopBody(viaMsg) ==
    /\ Motion("emergency_stop", None, <<0, 0>>, "STOP")
    /\ estop' = EStopRecord(viaMsg)

emergency_stop == Idle /\ EmergencyStopBody(FALSE)

\* disconnect(): clear is_running, then join the drain thread.
DisconnectBegin ==
    /\ main_pc \in {"idle", "disconnect"}
    /\ is_running' = FALSE
    /\ main_pc' = "join"
    /\ UNCHANGED <<is_connected, serial_port, command_thread, left_speed,
                   right_speed, current_direction, commands_sent, command_errors,
                   command_queue, threads, wire, submitted, popped, estop,
                   last_call>>

\* A disconnect() that leaves the port as it found it.
PortAfterCloseStaysOpen(port) == port

\* if self.serial_port is not None: self.serial_port.close()
PortAfterClose(port) == IF port = "none" THEN "none" ELSE "closed"

\* disconnect() after join() returned: close the port, clear is_connected.
DisconnectFinish ==
    /\ main_pc = "join"
    /\ command_thread # 0 => threads[command_thread].pc = "exit"
    /\ serial_port' = PortAfterClose(serial_port)
    /\ is_connected' = FALSE
    /\ main_pc' = "idle"
    /\ UNCHANGED <<is_running, command_thread, left_speed, right_speed,
                   current_direction, commands_sent, command_errors,
                   command_queue, threads, wire, submitted, popped, estop,
                   last_call>>

\* shutdown(): emergency_stop(), then disconnect().
MotorShutdown ==
    /\ main_pc = "idle"
    /\ main_pc' = "disconnect"
    /\ EmergencyStopBody(FALSE)

\* ------------------------------------------------ the drain thread
SetThread(t, rec) == threads' = [threads EXCEPT ![t] = rec]

\* while self.is_running:
LoopCheck(t) ==
    /\ threads[t].pc = "check"
    /\ SetThread(t, [threads[t] EXCEPT !.pc = IF is_running THEN "pop" ELSE "exit"])
    /\ UNCHANGED <<is_connected, is_running, serial_port, command_thread,
                   left_speed, right_speed, current_direction, commands_sent,
                   command_errors, command_queue, main_pc, wire, submitted,
                   popped, estop, last_call>>

\* A drain loop that takes the newest command instead of the oldest.
QueuePopNewest(q) == [elem |-> q[Len(q)], rest |-> SubSeq(q, 1, Len(q) - 1)]

\* command_queue.pop(0): the element taken and the queue left.
QueuePop(q) == [elem |-> Head(q), rest |-> Tail(q)]

\* A drain loop that leaves a lone command in the queue.
QueueHasSeveral(q) == Len(q) >= 2

\* if self.command_queue:
QueueHasCommand(q) == q # <<>>

\* with self.queue_lock: pop the oldest command, or note that there is none
\* (in which case the tick ends with the sleep).
Pop(t) ==
    /\ threads[t].pc = "pop"
    /\ IF QueueHasCommand(command_queue)
       THEN /\ SetThread(t, [pc |-> "tx", cmd |-> QueuePop(command_queue).elem,
                             idx |-> popped + 1])
            /\ command_queue' = QueuePop(command_queue).rest
            /\ popped' = popped + 1
       ELSE /\ SetThread(t, [pc |-> "check", cmd |-> None, idx |-> 0])
            /\ UNCHANGED <<command_queue, popped>>
    /\ UNCHANGED <<is_connected, is_running, serial_port, command_thread,
                   left_speed, right_speed, current_direction, commands_sent,
                   command_errors, main_pc, wire, submitted, estop, last_call>>

\* One write attempt as the serial link sees it.
WireEntry(t, ok) ==
    [cmd |-> threads[t].cmd, idx |-> threads[t].idx,
     frame |-> BuildFrame(threads[t].cmd[1], threads[t].cmd[2]), ok |-> ok]

\* A drain loop that goes on popping after a write, without the sleep.
ThreadAfterWriteDrainAll(t, ok) == [pc |-> "pop", cmd |-> None, idx |-> 0]

\* A drain loop that keeps a command whose write failed and tries it again.
ThreadAfterWriteRetry(t, ok) ==
    IF ok THEN [pc |-> "check", cmd |-> None, idx |-> 0] ELSE threads[t]

\* The drain thread once _transmit_command has returned: the exception of a
\* failed write was caught inside it, the command is gone, the tick ends.
ThreadAfterWrite(t, ok) == [pc |-> "check", cmd |-> None, idx |-> 0]

\* _transmit_command, then the sleep that ends the tick.  writeOk is the
\* outcome of serial_port.write on an open port.
Transmit(t, writeOk) ==
    /\ threads[t].pc = "tx"
    /\ SetThread(t, ThreadAfterWrite(t, serial_port = "open" /\ writeOk))
    /\ IF ~is_connected \/ serial_port = "none"
       THEN UNCHANGED <<wire, commands_sent, command_errors>>
       ELSE IF ~FrameBytesValid(threads[t].cmd[1], threads[t].cmd[2])
       THEN /\ command_errors' = command_errors + 1
            /\ UNCHANGED <<wire, commands_sent>>
       ELSE IF serial_port = "open" /\ writeOk
       THEN /\ wire' = Append(wire, WireEntry(t, TRUE))
            /\ commands_sent' = commands_sent + 1
            /\ UNCHANGED command_errors
       ELSE /\ wire' = Append(wire, WireEntry(t, FALSE))
            /\ command_errors' = command_errors + 1
            /\ UNCHANGED commands_sent
    /\ UNCHANGED <<is_connected, is_running, serial_port, command_thread,
                   left_speed, right_speed, current_direction, command_queue,
                   main_pc, submitted, popped, estop, last_call>>

\* ------------------------------------- RoverSystem.handle_control_command
\* A parsed control message: type, action and speed (200 when absent).
DefaultSpeed == 200

\* A control message as the handler sees it: what json.loads makes of the
\* text ("invalid": it raises; "array": a value that is not an object) and,
\* for an object, its type, action and speed ("none" for an absent key).
Msg(type, action, speed) ==
    [json |-> "object", type |-> type, action |-> action, speed |-> speed]

RawMsg(json) ==
    [json |-> json, type |-> "none", action |-> "none", speed |-> DefaultSpeed]

\* json.loads raises on text that is not JSON; cmd_data.get raises on a
\* value that is not an object.
Raises(m) == m.json # "object"

\* A dispatcher whose last motor branch is an else.
IsStopOrOther(action) == action \notin {"forward", "backward", "left", "right"}

\* elif action == 'stop':
IsStop(action) == action = "stop"

\* The handler's try block is closed by 'except Exception', which logs.
ControlCatches == TRUE

handle_control_command(m) ==
    IF Raises(m) THEN main_pc = "idle" /\ UNCHANGED mvars
    ELSE IF m.type = "motor" /\ m.action = "forward" THEN move_forward(m.speed)
    ELSE IF m.type = "motor" /\ m.action = "backward" THEN move_backward(m.speed)
    ELSE IF m.type = "motor" /\ m.action = "left" THEN turn_left(m.speed)
    ELSE IF m.type = "motor" /\ m.action = "right" THEN turn_right(m.speed)
    ELSE IF m.type = "motor" /\ IsStop(m.action) THEN stop
    ELSE IF m.type = "system" /\ m.action = "emergency_stop"
    THEN Idle /\ EmergencyStopBody(TRUE)
    ELSE main_pc = "idle" /\ UNCHANGED mvars

\* The messages of the main specification.
ControlMessages ==
    { Msg("motor", a, s) : a \in {"forward"}, s \in SpeedInputs }
    \cup { Msg("motor", "stop", DefaultSpeed),
           Msg("system", "emergency_stop", DefaultSpeed) }

\* ----------------------------------------------------------------- Next
CanSubmit == Len(submitted) < MaxSubmit

\* The caller's side: the orchestrator connects a controller that is not
\* connected, the operator's messages arrive, the system shuts down.
Caller ==
    \/ \E ok \in BOOLEAN :
          /\ ~is_connected
          /\ Len(threads) < MaxConnects
          /\ Connect(ok)
          /\ MotorOnly
    \/ \E m \in ControlMessages :
          CanSubmit /\ handle_control_command(m) /\ MotorOnly
    \/ \E p \in PairInputs :
          CanSubmit /\ set_motor_speed(p[1], p[2]) /\ MotorOnly
    \/ CanSubmit /\ MotorShutdown /\ MotorOnly
    \/ DisconnectBegin /\ MotorOnly
    \/ DisconnectFinish /\ MotorOnly

Drain ==
    \E t \in 1..Len(threads) :
        \/ LoopCheck(t) /\ MotorOnly
        \/ Pop(t) /\ MotorOnly
        \/ \E ok \in BOOLEAN :
              /\ ok \/ command_errors < MaxWriteFailures
              /\ Transmit(t, ok)
              /\ MotorOnly

Next == Caller \/ Drain

Spec == Init /\ [][Next]_vars

\* A call that has started runs to its end: shutdown() goes on to
\* disconnect(), and disconnect() returns once join() has.
CallerContinues ==
    \/ main_pc = "disconnect" /\ DisconnectBegin /\ MotorOnly
    \/ DisconnectFinish /\ MotorOnly

\* The drain thread is a running OS thread: it keeps taking steps.
FairSpec == Spec /\ WF_vars(Drain) /\ WF_vars(CallerContinues)

\* ------------------------------------------- connecting more than once
\* connect() and disconnect() called in any order, with submissions in
\* between: connect() on a connected controller, and connect() again
\* after disconnect().
MaxReconnects == 2        \* successful connect() calls in one run
MaxReconnectSubmits == 2  \* commands appended to the queue in one run

ReconnectOnly ==
    UNCHANGED <<ctl, cvars, camvars, devvars, audvars, pvars, ovars,
                last_offer, tvars, playback, capture, lock, signaling>>

\* The drain threads that have not returned from _command_loop.
LiveDrains == {t \in 1..Len(threads) : threads[t].pc # "exit"}

\* The submissions that have been written to the link, or tried.
Written == {wire[k].idx : k \in 1..Len(wire)}

\* connect(), noting which commands of an earlier disconnect() are still
\* to be written now that the controller is connected again.
ConnectAgain(ok) ==
    /\ Connect(ok)
    /\ link_log' = IF ok
                   THEN [pending |-> {},
                         stale |-> link_log.stale \cup (link_log.pending \ Written)]
                   ELSE link_log
    /\ ReconnectOnly

\* disconnect() as it is called, noting the commands then in the queue.
DisconnectCalled ==
    /\ DisconnectBegin
    /\ link_log' = [link_log EXCEPT
          !.pending = @ \cup ((popped + 1)..Len(submitted))]
    /\ ReconnectOnly

ReconnectCaller ==
    \/ \E ok \in BOOLEAN :
          Len(threads) < MaxReconnects /\ ConnectAgain(ok)
    \/ \E s \in SpeedInputs :
          /\ Len(submitted) < MaxReconnectSubmits
          /\ move_forward(s)
          /\ MotorOnly
    \/ DisconnectCalled
    \/ DisconnectFinish /\ MotorOnly

ReconnectNext == ReconnectCaller \/ Drain

SpecReconnect == Init /\ [][ReconnectNext]_vars

\* ------------------------------------------------------ queue_lock
\* The submit and the drain with the lock made explicit: `with
\* self.queue_lock` is an acquire (which waits while another thread holds
\* the lock), the block, and the release on leaving the block.
MaxLockSubmits == 2    \* commands appended to the queue in one run

LockOnly ==
    UNCHANGED <<ctl, cvars, camvars, devvars, audvars, pvars, ovars,
                last_offer, tvars, playback, capture, link_log, signaling>>

\* A motion method up to the `with` of _send_motor_command: the fields are
\* set, and a controller that is not connected returns at once.
SubmitCall(op, arg, pair, dir) ==
    /\ main_pc = "idle"
    /\ lock.caller_pc = "idle"
    /\ last_call' = [op |-> op, arg |-> arg]
    /\ left_speed' = pair[1]
    /\ right_speed' = pair[2]
    /\ current_direction' = dir
    /\ lock' = IF is_connected
               THEN [lock EXCEPT !.caller_pc = "acquire", !.cmd = pair]
               ELSE lock
    /\ UNCHANGED <<is_connected, is_running, serial_port, command_thread,
                   commands_sent, command_errors, command_queue, threads,
                   main_pc, wire, submitted, popped, estop>>
    /\ LockOnly

\* with self.queue_lock, entered by the submitting caller
SubmitAcquire ==
    /\ lock.caller_pc = "acquire"
    /\ lock.owner = "free"
    /\ lock' = [lock EXCEPT !.owner = "caller", !.caller_pc = "locked"]
    /\ UNCHANGED mvars
    /\ LockOnly

\* self.command_queue.append(...), and the block is left
SubmitAppend ==
    /\ lock.caller_pc = "locked"
    /\ command_queue' = Append(command_queue, lock.cmd)
    /\ submitted' = Append(submitted, lock.cmd)
    /\ lock' = [lock EXCEPT !.owner = "free", !.caller_pc = "idle",
                            !.cmd = None]
    /\ UNCHANGED <<is_connected, is_running, serial_port, command_thread,
                   left_speed, right_speed, current_direction, commands_sent,
                   command_errors, threads, main_pc, wire, popped, estop,
                   last_call>>
    /\ LockOnly

\* with self.queue_lock, entered by drain thread t
DrainAcquire(t) ==
    /\ threads[t].pc = "pop"
    /\ lock.owner = "free"
    /\ lock' = [lock EXCEPT !.owner = "drain", !.thread = t]
    /\ SetThread(t, [threads[t] EXCEPT !.pc = "locked"])
    /\ UNCHANGED <<is_connected, is_running, serial_port, command_thread,
                   left_speed, right_speed, current_direction, commands_sent,
                   command_errors, command_queue, main_pc, wire, submitted,
                   popped, estop, last_call>>
    /\ LockOnly

\* Inside the block: pop the oldest command, or note that there is none.
DrainLockedPop(t) ==
    /\ threads[t].pc = "locked"
    /\ IF QueueHasCommand(command_queue)
       THEN /\ SetThread(t, [pc |-> "unlock", cmd |-> QueuePop(command_queue).elem,
                             idx |-> popped + 1])
            /\ command_queue' = QueuePop(command_queue).rest
            /\ popped' = popped + 1
       ELSE /\ SetThread(t, [pc |-> "unlock", cmd |-> None, idx |-> 0])
            /\ UNCHANGED <<command_queue, popped>>
    /\ UNCHANGED <<is_connected, is_running, serial_port, command_thread,
                   left_speed, right_speed, current_direction, commands_sent,
                   command_errors, main_pc, wire, submitted, estop, last_call,
                   lock>>
    /\ LockOnly

\* A drain loop that transmits inside the block, the lock still held.
LockAfterBlockHeld(t) == lock

\* The block is left before anything is transmitted: the lock is free.
LockAfterBlock(t) == [lock EXCEPT !.owner = "free", !.thread = 0]

\* Drain thread t leaves the block: on to _transmit_command if it holds a
\* command, else to the sleep that ends the iteration.
DrainRelease(t) ==
    /\ threads[t].pc = "unlock"
    /\ lock' = LockAfterBlock(t)
    /\ SetThread(t, [threads[t] EXCEPT
          !.pc = IF threads[t].cmd # None THEN "tx" ELSE "check"])
    /\ UNCHANGED <<is_connected, is_running, serial_port, command_thread,
                   left_speed, right_speed, current_direction, commands_sent,
                   command_errors, command_queue, main_pc, wire, submitted,
                   popped, estop, last_call>>
    /\ LockOnly

\* Commands submitted or about to be.
LockSubmits == Len(submitted) + (IF lock.cmd = None THEN 0 ELSE 1)

LockCaller ==
    \/ \E ok \in BOOLEAN :
          /\ threads = <<>>
          /\ lock.caller_pc = "idle"
          /\ Connect(ok)
          /\ MotorOnly
    \/ \E s \in SpeedInputs :
          /\ LockSubmits < MaxLockSubmits
          /\ SubmitCall("move_forward", s, ForwardPair(s), "FORWARD")
    \/ LockSubmits < MaxLockSubmits
          /\ SubmitCall("stop", None, <<0, 0>>, "STOP")
    \/ SubmitAcquire
    \/ SubmitAppend

LockDrain ==
    \E t \in 1..Len(threads) :
        \/ LoopCheck(t) /\ MotorOnly
        \/ DrainAcquire(t)
        \/ DrainLockedPop(t)
        \/ DrainRelease(t)
        \/ \E ok \in BOOLEAN :
              /\ ok \/ command_errors < MaxWriteFailures
              /\ Transmit(t, ok)
              /\ MotorOnly

LockNext == LockCaller \/ LockDrain

SpecLock == Init /\ [][LockNext]_vars

\* ------------------------------------------------ bursts and ticks
\* One connected controller, a burst of submissions, and the drain loop
\* with its iterations (ticks: each ends with the 10 ms sleep) counted.
MaxBurst == 3    \* commands submitted in one run
MaxTicks == 4    \* iterations of the drain loop in one run

TickFrame ==
    UNCHANGED <<ctl, cvars, camvars, devvars, audvars, pvars, ovars, last_offer,
                playback, xvars>>

\* while self.is_running: a new iteration begins.
TickLoopCheck(t) ==
    /\ ticks < MaxTicks
    /\ LoopCheck(t)
    /\ ticks' = IF is_running THEN ticks + 1 ELSE ticks
    /\ UNCHANGED tick_log
    /\ TickFrame

TickPop(t) ==
    /\ Pop(t)
    /\ tick_log' = IF command_queue = <<>>
                   THEN [tick_log EXCEPT !.empty = @ \cup {ticks}]
                   ELSE tick_log
    /\ UNCHANGED ticks
    /\ TickFrame

TickTransmit(t, ok) ==
    /\ Transmit(t, ok)
    /\ tick_log' = IF wire' # wire
                   THEN [tick_log EXCEPT !.wrote = Append(@, ticks)]
                   ELSE tick_log
    /\ UNCHANGED ticks
    /\ TickFrame

TickNext ==
    \/ \E ok \in BOOLEAN :
          ~is_connected /\ threads = <<>> /\ Connect(ok) /\ MotorOnly
    \/ \E s \in SpeedInputs :
          Len(submitted) < MaxBurst /\ move_forward(s) /\ MotorOnly
    \/ Len(submitted) < MaxBurst /\ stop /\ MotorOnly
    \/ \E t \in 1..Len(threads) :
          \/ TickLoopCheck(t)
          \/ TickPop(t)
          \/ \E ok \in BOOLEAN :
                (ok \/ command_errors < MaxWriteFailures) /\ TickTransmit(t, ok)

SpecTicks == Init /\ [][TickNext]_vars

\* -------------------------------------------- every control message
\* The dispatcher fed with every combination of type and action, with text
\* that is not JSON and with JSON that is not an object.
MaxDispatch == 2    \* commands appended to the queue in one run

MsgTypes == {"motor", "camera", "system", "telemetry", "none"}

MsgActions == {"forward", "backward", "left", "right", "stop",
               "emergency_stop", "switch_front", "spin", "none"}

DispatchMessages ==
    { Msg(t, a, 150) : t \in MsgTypes, a \in MsgActions }
    \cup { RawMsg(j) : j \in {"invalid", "array"} }

\* A message arrives on the control channel and is handled.
ControlMessage(m) ==
    /\ Len(submitted) < MaxDispatch
    /\ handle_control_command(m)
    /\ ctl' = [msg |-> m, tog |-> ~ctl.tog, raised |-> Raises(m) /\ ~ControlCatches]
    /\ DispatchOnly

DispatchNext ==
    \/ \E ok \in BOOLEAN :
          ~is_connected /\ threads = <<>> /\ Connect(ok) /\ MotorOnly
    \/ \E m \in DispatchMessages : ControlMessage(m)
    \/ Drain

SpecDispatch == Init /\ [][DispatchNext]_vars

\* ------------------------------------------- every speed, one command
\* The same controller driven with every speed of the protocol's range
\* (and some outside it), one submission per run.
SpeedLimit == 255

SampleSpeeds == {-300, -SpeedLimit, -128, -1, 0, 1, 127, 128, SpeedLimit, 300}

WideSpeeds == (0..SpeedLimit) \cup {-5, 300}

WidePairs ==
    { <<l, r>> : l \in (-260)..260, r \in SampleSpeeds }
    \cup { <<l, r>> : l \in SampleSpeeds, r \in (-260)..260 }

WideReady == is_connected /\ submitted = <<>>

WideCaller ==
    \/ \E ok \in BOOLEAN :
          ~is_connected /\ threads = <<>> /\ Connect(ok) /\ MotorOnly
    \/ WideReady /\ MotorOnly /\ \E s \in WideSpeeds : move_forward(s)
    \/ WideReady /\ MotorOnly /\ \E s \in WideSpeeds : move_backward(s)
    \/ WideReady /\ MotorOnly /\ \E s \in WideSpeeds : turn_left(s)
    \/ WideReady /\ MotorOnly /\ \E s \in WideSpeeds : turn_right(s)
    \/ WideReady /\ MotorOnly /\ stop
    \/ WideReady /\ MotorOnly /\ \E p \in WidePairs : set_motor_speed(p[1], p[2])

WideNext == WideCaller \/ Drain

SpecWide == Init /\ [][WideNext]_vars

\* --------------------------------------------- the speed codec alone
\* Two speeds of the protocol's range are drawn and encoded.
InitCodecInputs ==
    /\ InitMotor
    /\ InitMedia
    /\ InitPeers
    /\ InitRover
    /\ codec_in \in ((-SpeedLimit)..SpeedLimit) \X ((-SpeedLimit)..SpeedLimit)
    /\ codec_out = None

Encode ==
    /\ codec_out = None
    /\ codec_out' = <<speed_to_byte(codec_in[1]), speed_to_byte(codec_in[2])>>
    /\ UNCHANGED codec_in
    /\ CodecOnly

\* The receiver's decoding of a byte as a two's-complement signed value.
byte_to_speed(b) == IF b < 128 THEN b ELSE b - 256

SpecCodec == InitCodecInputs /\ [][Encode]_vars

\* ------------------------------------------ capture loops and buffers
MaxFrames == 15       \* frames read from all devices in one run
MaxReadErrors == 1    \* consecutive failed reads of a device

\* deque(maxlen=n).append(x): the oldest element leaves a full deque.
DequeAppendKeepOldest(buf, n, x) ==
    IF Len(buf) >= n THEN buf ELSE Append(buf, x)

DequeAppend(buf, n, x) ==
    IF Len(buf) >= n THEN Append(Tail(buf), x) ELSE Append(buf, x)

\* initialize() with both sides required to open.
InitSuccessBoth(front, rear) == front /\ rear

\* success = False; set to True by each camera that opens.
InitSuccess(front, rear) == front \/ rear

\* A camera that is disabled stays None; one that is enabled and fails to
\* open is set back to None.
CameraAfterOpen(enabled, opens) == IF enabled /\ opens THEN "open" ELSE "none"

\* Both cameras enabled in the configuration (the default).
AllEnabled == [c \in Cams |-> TRUE]

\* CameraManager.initialize(): en is the 'enabled' setting of each camera,
\* ok the outcome of USBCamera.open() on its device.
CamInitialize(en, ok) ==
    /\ cam_pc = "none"
    /\ cam_init = "none"
    /\ cam_cfg' = [enabled |-> en, opens |-> ok]
    /\ camera' = [c \in Cams |-> CameraAfterOpen(en[c], ok[c])]
    /\ cam_init' = IF InitSuccess(en["front"] /\ ok["front"], en["rear"] /\ ok["rear"])
                   THEN "ok" ELSE "failed"
    /\ UNCHANGED <<frame_count, error_count, cam_running, cam_pc, frame_buffer,
                   touched, got, stop_signalled>>

\* CameraManager.start_capture().  A loop started earlier has been joined
\* by stop_capture() before the caller gets here.
CamStartCapture ==
    /\ ~cam_running
    /\ cam_pc \in {"none", "exit"}
    /\ cam_running' = TRUE
    /\ cam_pc' = "check"
    /\ stop_signalled' = FALSE
    /\ UNCHANGED <<camera, frame_count, error_count, frame_buffer, cam_cfg,
                   cam_init, touched, got>>

\* CameraManager.stop_capture(): clear the flag the loop tests (the join
\* that follows changes nothing).
CamStopCapture ==
    /\ cam_running
    /\ cam_running' = FALSE
    /\ stop_signalled' = TRUE
    /\ UNCHANGED <<camera, frame_count, error_count, cam_pc, frame_buffer,
                   cam_cfg, cam_init, touched, got>>

\* A camera loop that waits for the flag to come back instead of returning.
CamLoopTestSpin(running) == IF running THEN "front" ELSE "check"

\* while self.is_running: the test of the camera loop
CamLoopTest(running) == IF running THEN "front" ELSE "exit"

CamLoopCheck ==
    /\ cam_pc = "check"
    /\ cam_pc' = CamLoopTest(cam_running)
    /\ UNCHANGED <<camera, frame_count, error_count, cam_running, frame_buffer,
                   cam_cfg, cam_init, touched, got, stop_signalled>>

\* A loop that gives up on a device past the warning threshold.
CamAfterGiveUp(c) ==
    IF error_count[c] > ErrorThreshold THEN "exit"
    ELSE IF c = "front" THEN "rear" ELSE "check"

\* The front camera is read first, then the rear, then the loop sleeps.
CamAfter(c) == IF c = "front" THEN "rear" ELSE "check"

\* One camera's part of an iteration: read_frame(), then the push.  The
\* frame a device delivers is named by its number (USBCamera.frame_count).
CamRead(c, ok) ==
    /\ cam_pc = c
    /\ cam_pc' = CamAfter(c)
    /\ touched' = [touched EXCEPT ![c] = @ \/ camera[c] # "none"]
    /\ IF camera[c] = "none"
       THEN UNCHANGED <<frame_count, error_count, frame_buffer>>
       ELSE IF ok
       THEN /\ error_count' = [error_count EXCEPT ![c] = 0]
            /\ frame_count' = [frame_count EXCEPT ![c] = @ + 1]
            /\ frame_buffer' = [frame_buffer EXCEPT
                  ![c] = DequeAppend(@, FrameBufferLen, frame_count[c] + 1)]
       ELSE /\ error_count' = [error_count EXCEPT ![c] = @ + 1]
            /\ UNCHANGED <<frame_count, frame_buffer>>
    /\ UNCHANGED <<camera, cam_running, cam_cfg, cam_init, got, stop_signalled>>

\* AudioProcessor.initialize(): the input stream opens or stays None.
AudioInitialize(ok) ==
    /\ audio_pc = "none"
    /\ stream_in' = IF ok THEN "open" ELSE stream_in
    /\ UNCHANGED <<audio_running, audio_pc, captured_frames, capture_errors,
                   capture_buffer>>

\* AudioProcessor.start_capture()
AudioStartCapture ==
    /\ ~audio_running
    /\ stream_in # "none"
    /\ audio_running' = TRUE
    /\ audio_pc' = "loop"
    /\ UNCHANGED <<stream_in, captured_frames, capture_errors, capture_buffer>>

\* One iteration of AudioProcessor._capture_loop with is_running set.
AudioCapture(ok) ==
    /\ audio_pc = "loop"
    /\ audio_running
    /\ IF ok
       THEN /\ capture_buffer' =
                 DequeAppend(capture_buffer, CaptureBufferLen, captured_frames + 1)
            /\ captured_frames' = captured_frames + 1
            /\ UNCHANGED capture_errors
       ELSE /\ capture_errors' = capture_errors + 1
            /\ UNCHANGED <<capture_buffer, captured_frames>>
    /\ UNCHANGED <<stream_in, audio_running, audio_pc>>

\* AudioProcessor.stop_capture(): clear the flag the loop tests.
AudioStopCapture ==
    /\ audio_running' = FALSE
    /\ UNCHANGED <<stream_in, audio_pc, captured_frames, capture_errors,
                   capture_buffer>>

\* while self.is_running: found false, the capture thread returns.
AudioLoopExit ==
    /\ audio_pc = "loop"
    /\ ~audio_running
    /\ audio_pc' = "exit"
    /\ UNCHANGED <<stream_in, audio_running, captured_frames, capture_errors,
                   capture_buffer>>

\* A getter that returns the oldest frame of the buffer.
FrameOldest(buf) == IF buf # <<>> THEN buf[1] ELSE NoFrame

\* if buffer: return buffer[-1]; return None
FrameLatest(buf) == IF buf # <<>> THEN buf[Len(buf)] ELSE NoFrame

\* CameraManager.get_front_frame / get_rear_frame
CamGetFrame(c) ==
    /\ got' = [buf |-> c, frame |-> FrameLatest(frame_buffer[c])]
    /\ UNCHANGED <<camera, frame_count, error_count, cam_running, cam_pc,
                   frame_buffer, cam_cfg, cam_init, touched, stop_signalled>>
    /\ UNCHANGED audvars

\* AudioProcessor.get_latest_frame
AudioGetLatestFrame ==
    /\ got' = [buf |-> "audio", frame |-> FrameLatest(capture_buffer)]
    /\ UNCHANGED <<camera, frame_count, error_count, cam_running, cam_pc,
                   frame_buffer, cam_cfg, cam_init, touched, stop_signalled>>
    /\ UNCHANGED audvars

FramesRead == frame_count["front"] + frame_count["rear"] + captured_frames

\* The steps of the capture side, with at most maxFrames frames delivered.
CaptureSteps(maxFrames) ==
    \/ \E en, ok \in [Cams -> BOOLEAN] :
          CamInitialize(en, ok) /\ UNCHANGED audvars /\ MediaOnly
    \/ CamStartCapture /\ UNCHANGED audvars /\ MediaOnly
    \/ CamStopCapture /\ UNCHANGED audvars /\ MediaOnly
    \/ CamLoopCheck /\ UNCHANGED audvars /\ MediaOnly
    \/ \E c \in Cams, ok \in BOOLEAN :
          /\ IF ok THEN FramesRead < maxFrames ELSE error_count[c] < MaxReadErrors
          /\ CamRead(c, ok)
          /\ UNCHANGED audvars
          /\ MediaOnly
    \/ \E ok \in BOOLEAN : AudioInitialize(ok) /\ UNCHANGED camvars /\ MediaOnly
    \/ AudioStartCapture /\ UNCHANGED camvars /\ MediaOnly
    \/ \E ok \in BOOLEAN :
          /\ IF ok THEN FramesRead < maxFrames ELSE capture_errors < MaxReadErrors
          /\ AudioCapture(ok)
          /\ UNCHANGED camvars
          /\ MediaOnly

MediaNext == CaptureSteps(MaxFrames)

SpecMedia == Init /\ [][MediaNext]_vars

\* ------------------------------------------------- the consumers' side
\* The capture side with the encoders and tracks reading the latest frame.
MaxGetterFrames == 6    \* frames read from all devices in one run

GetterNext ==
    \/ CaptureSteps(MaxGetterFrames)
    \/ \E c \in Cams : CamGetFrame(c) /\ MediaOnly
    \/ AudioGetLatestFrame /\ MediaOnly

SpecGetters == Init /\ [][GetterNext]_vars

\* ------------------------------------------------ a device that drops out
\* The camera loop against devices whose reads fail many times in a row
\* (past the warning threshold of read_frame), with few frames delivered.
MaxDropout == 12        \* consecutive failed reads of a device
MaxDropoutFrames == 1   \* frames a device delivers in one run

DropoutNext ==
    \/ \E en, ok \in [Cams -> BOOLEAN] :
          CamInitialize(en, ok) /\ UNCHANGED audvars /\ MediaOnly
    \/ CamStartCapture /\ UNCHANGED audvars /\ MediaOnly
    \/ CamStopCapture /\ UNCHANGED audvars /\ MediaOnly
    \/ CamLoopCheck /\ UNCHANGED audvars /\ MediaOnly
    \/ \E c \in Cams, ok \in BOOLEAN :
          /\ IF ok THEN frame_count[c] < MaxDropoutFrames
                   ELSE error_count[c] < MaxDropout
          /\ CamRead(c, ok)
          /\ UNCHANGED audvars
          /\ MediaOnly

SpecDropout == Init /\ [][DropoutNext]_vars

\* CameraManager.stop_capture(): clear the flag, whatever it was.
CamStopSignal ==
    /\ cam_running' = FALSE
    /\ stop_signalled' = TRUE
    /\ UNCHANGED <<camera, frame_count, error_count, cam_pc, frame_buffer,
                   cam_cfg, cam_init, touched, got>>

\* ------------------------------------------------- stopping the loops
\* Each loop started once and stopped: the camera and audio capture loops
\* by stop_capture(), the drain loop by disconnect().  A read that is under
\* way when the flag is cleared returns.
MaxStopFrames == 1    \* frames read from all devices while running

CamLoopSteps ==
    \/ CamLoopCheck /\ UNCHANGED audvars /\ MediaOnly
    \/ \E c \in Cams, ok \in BOOLEAN :
          /\ \/ ~cam_running /\ ok
             \/ cam_running /\ (IF ok THEN FramesRead < MaxStopFrames
                                       ELSE error_count[c] < MaxReadErrors)
          /\ CamRead(c, ok)
          /\ UNCHANGED audvars
          /\ MediaOnly

AudioLoopSteps ==
    \/ \E ok \in BOOLEAN :
          /\ IF ok THEN FramesRead < MaxStopFrames
                   ELSE capture_errors < MaxReadErrors
          /\ AudioCapture(ok)
          /\ UNCHANGED camvars
          /\ MediaOnly
    \/ AudioLoopExit /\ UNCHANGED camvars /\ MediaOnly

StopCallers ==
    \/ \E ok \in [Cams -> BOOLEAN] :
          CamInitialize(AllEnabled, ok) /\ UNCHANGED audvars /\ MediaOnly
    \/ cam_pc = "none" /\ CamStartCapture /\ UNCHANGED audvars /\ MediaOnly
    \/ CamStopCapture /\ UNCHANGED audvars /\ MediaOnly
    \/ \E ok \in BOOLEAN : AudioInitialize(ok) /\ UNCHANGED camvars /\ MediaOnly
    \/ audio_pc = "none" /\ AudioStartCapture /\ UNCHANGED camvars /\ MediaOnly
    \/ audio_running /\ AudioStopCapture /\ UNCHANGED camvars /\ MediaOnly
    \/ \E ok \in BOOLEAN :
          ~is_connected /\ threads = <<>> /\ Connect(ok) /\ MotorOnly
    \/ submitted = <<>> /\ stop /\ MotorOnly
    \/ threads # <<>> /\ is_running /\ DisconnectBegin /\ MotorOnly
    \/ DisconnectFinish /\ MotorOnly

StopNext == StopCallers \/ CamLoopSteps \/ AudioLoopSteps \/ Drain

\* The loops are running OS threads: each keeps taking steps.
SpecStop ==
    /\ Init
    /\ [][StopNext]_vars
    /\ WF_vars(CamLoopSteps)
    /\ WF_vars(AudioLoopSteps)
    /\ WF_vars(Drain)

\* ------------------------------------------------------ audio playback
\* The playback side of AudioProcessor (the output stream is open): frames
\* are buffered by play_audio(), the live playback threads consume them,
\* and stop_playback() joins the thread it knows with a timeout.
MaxPlayFrames == 5     \* frames handed to play_audio() in one run
MaxPlayThreads == 2    \* playback threads started in one run

PlaybackFrame ==
    UNCHANGED <<mvars, ctl, cvars, camvars, devvars, audvars, pvars, ovars,
                last_offer, tvars, xvars>>

\* play_audio(): playback_buffer.append(frame); playback_frames += 1
PlayAudio ==
    /\ playback' = [playback EXCEPT
          !.buffer = DequeAppend(@, CaptureBufferLen, playback.frames + 1),
          !.frames = @ + 1]
    /\ PlaybackFrame

\* start_playback(): a thread is started unless playback_thread is set.
StartPlayback ==
    /\ playback.caller = "idle"
    /\ playback.thread = "none"
    /\ playback' = [playback EXCEPT !.thread = "set", !.live = @ + 1,
                                    !.returned = FALSE]
    /\ PlaybackFrame

\* while True: the playback loop has no stop flag to test, so a thread
\* that has finished an iteration is still live.
PlaybackLoopTest(live) == live

\* One iteration of _playback_loop: take the oldest frame and write it,
\* or sleep when the buffer is empty.
PlaybackStep ==
    /\ playback.live > 0
    /\ playback.buffer # <<>>
    /\ playback' = [playback EXCEPT !.buffer = Tail(@), !.taken = @ + 1,
                                    !.live = PlaybackLoopTest(@)]
    /\ PlaybackFrame

\* stop_playback(): if playback_thread is not None: join(timeout=5)
StopPlaybackBegin ==
    /\ playback.caller = "idle"
    /\ ~playback.returned
    /\ playback' = IF playback.thread = "none"
                   THEN [playback EXCEPT !.returned = TRUE]
                   ELSE [playback EXCEPT !.caller = "join"]
    /\ PlaybackFrame

\* join() returns, because the thread has exited or because the five
\* seconds are over; playback_thread = None; stop_playback() returns.
StopPlaybackReturns ==
    /\ playback.caller = "join"
    /\ playback' = [playback EXCEPT !.caller = "idle", !.thread = "none",
                                    !.returned = TRUE]
    /\ PlaybackFrame

PlaybackNext ==
    \/ playback.frames < MaxPlayFrames /\ PlayAudio
    \/ playback.live < MaxPlayThreads /\ StartPlayback
    \/ PlaybackStep
    \/ StopPlaybackBegin
    \/ StopPlaybackReturns

SpecPlayback == Init /\ [][PlaybackNext]_vars

\* ------------------------------------------- closing the camera devices
\* The camera manager shut down, more than once, and its cameras closed
\* directly, around a capture loop that is running or not.
MaxReleases == 2       \* cap.release() calls on one device in one run
MaxCloseFrames == 2    \* frames read from the cameras in one run

\* USBCamera.close(): if self.cap is not None: self.cap.release().  The
\* cap of a camera the manager holds was set by open() and is never reset.
ReleasesAfterClose(cam, n) == IF cam # "none" THEN n + 1 ELSE n

\* USBCamera.close() called on one of the manager's cameras.
UsbCameraClose(c) ==
    /\ camera[c] # "none"
    /\ releases' = [releases EXCEPT ![c] = ReleasesAfterClose(camera[c], @)]
    /\ UNCHANGED <<cam_caller, camvars>>

\* CameraManager.shutdown(): stop_capture() clears the flag and joins.
CamShutdownBegin ==
    /\ cam_caller = "idle"
    /\ cam_caller' = "join"
    /\ cam_running' = FALSE
    /\ stop_signalled' = TRUE
    /\ UNCHANGED <<camera, frame_count, error_count, cam_pc, frame_buffer,
                   cam_cfg, cam_init, touched, got, releases>>

\* CameraManager.shutdown() after the join: close each camera it holds.
CamShutdownFinish ==
    /\ cam_caller = "join"
    /\ cam_pc \in {"none", "exit"}
    /\ cam_caller' = "idle"
    /\ releases' = [c \in Cams |-> ReleasesAfterClose(camera[c], releases[c])]
    /\ UNCHANGED camvars

CanRelease == \A c \in Cams : releases[c] < MaxReleases

CameraCloseNext ==
    \/ \E en, ok \in [Cams -> BOOLEAN] :
          CamInitialize(en, ok) /\ UNCHANGED audvars /\ MediaOnly
    \/ cam_caller = "idle" /\ CamStartCapture /\ UNCHANGED audvars /\ MediaOnly
    \/ CamLoopCheck /\ UNCHANGED audvars /\ MediaOnly
    \/ \E c \in Cams, ok \in BOOLEAN :
          /\ IF ok THEN FramesRead < MaxCloseFrames
                   ELSE error_count[c] < MaxReadErrors
          /\ CamRead(c, ok)
          /\ UNCHANGED audvars
          /\ MediaOnly
    \/ \E c \in Cams : CanRelease /\ UsbCameraClose(c) /\ CameraOnly
    \/ CanRelease /\ CamShutdownBegin /\ CameraOnly
    \/ CamShutdownFinish /\ CameraOnly

SpecCameraClose == Init /\ [][CameraCloseNext]_vars

\* ------------------------------------------ capture threads and joins
\* The capture threads themselves: start_capture() starts one whenever the
\* flag is clear, stop_capture() clears the flag and joins the thread in
\* capture_thread for five seconds, and a thread inside cap.read() stays
\* there until the device answers.
MaxCaptureThreads == 2    \* capture threads started in one run
MaxCaptureFrames == 1     \* frames each camera delivers in one run
MaxCallbackErrors == 1    \* frame callbacks that raise in one run

CaptureOnly ==
    UNCHANGED <<mvars, ctl, cvars, audvars, pvars, ovars, last_offer, tvars,
                playback, cam_pc, cam_cfg, cam_init, touched, got,
                stop_signalled, cam_caller, link_log, lock, signaling>>

\* The capture threads that have not returned from _capture_loop.
LiveLoops == {t \in 1..Len(capture.loops) : capture.loops[t] # "exit"}

\* The position of a thread that is inside cap.read() of a camera.
InRead(c) == IF c = "front" THEN "front_in" ELSE "rear_in"

\* CameraManager.start_capture(): return if is_running, else set it and
\* start a new thread, which replaces capture_thread.
StartCaptureThread ==
    /\ capture.caller = "idle"
    /\ ~cam_running
    /\ cam_running' = TRUE
    /\ capture' = [capture EXCEPT !.loops = Append(@, "check"),
                                  !.capture_thread = Len(capture.loops) + 1]
    /\ UNCHANGED <<camera, frame_count, error_count, frame_buffer, releases>>
    /\ CaptureOnly

\* Where the caller of stop_capture() goes once the join is over:
\* back to its own caller, or on to closing the cameras in shutdown().
AfterJoin(who) == IF who = "shutdown" THEN "close" ELSE "idle"

\* CameraManager.stop_capture(), called directly or first thing in
\* shutdown(): clear the flag, then join capture_thread if there is one.
StopCaptureBegin(who) ==
    /\ capture.caller = "idle"
    /\ cam_running' = FALSE
    /\ capture' = [capture EXCEPT !.caller =
          IF capture.capture_thread = 0 THEN AfterJoin(who)
          ELSE IF who = "shutdown" THEN "shutdown_join" ELSE "stop_join"]
    /\ UNCHANGED <<camera, frame_count, error_count, frame_buffer, releases>>
    /\ CaptureOnly

\* join(timeout=5) returns when the thread has exited, and also after five
\* seconds with the thread still inside a device read.
JoinMayReturn(pc) == pc \in {"exit", "front_in", "rear_in"}

StopCaptureJoinReturns ==
    /\ capture.caller \in {"stop_join", "shutdown_join"}
    /\ JoinMayReturn(capture.loops[capture.capture_thread])
    /\ capture' = [capture EXCEPT !.caller =
          AfterJoin(IF @ = "shutdown_join" THEN "shutdown" ELSE "stop_capture")]
    /\ UNCHANGED <<camera, frame_count, error_count, cam_running, frame_buffer,
                   releases>>
    /\ CaptureOnly

\* CameraManager.shutdown() after stop_capture(): close() on each camera
\* it holds releases the device and clears is_opened.
ShutdownClose ==
    /\ capture.caller = "close"
    /\ releases' = [c \in Cams |-> ReleasesAfterClose(camera[c], releases[c])]
    /\ capture' = [capture EXCEPT
          !.caller = "idle",
          !.closed = @ \cup {c \in Cams : camera[c] # "none"}]
    /\ UNCHANGED <<camera, frame_count, error_count, cam_running, frame_buffer>>
    /\ CaptureOnly

SetLoop(t, pc) == capture' = [capture EXCEPT !.loops[t] = pc]

\* while self.is_running, tested by capture thread t.
LoopTest(t) ==
    /\ capture.loops[t] = "check"
    /\ SetLoop(t, CamLoopTest(cam_running))
    /\ UNCHANGED <<camera, frame_count, error_count, cam_running, frame_buffer,
                   releases>>
    /\ CaptureOnly

\* Thread t reaches camera c: a camera that is None is skipped, read_frame()
\* of a closed one returns None, and otherwise the thread enters cap.read().
ReadEnter(t, c) ==
    /\ capture.loops[t] = c
    /\ SetLoop(t, IF camera[c] = "none" \/ c \in capture.closed
                  THEN CamAfter(c) ELSE InRead(c))
    /\ UNCHANGED <<camera, frame_count, error_count, cam_running, frame_buffer,
                   releases>>
    /\ CaptureOnly

\* After a frame was pushed its callback runs; one that raises takes the
\* thread to the except clause and from there to the loop test, past the
\* cameras that come later in the iteration.
AfterCallback(c, raises) == IF raises THEN "check" ELSE CamAfter(c)

\* cap.read() of camera c returns to thread t: a frame (pushed, counted,
\* handed to the callback) or a failure (counted).
ReadReturn(t, c, ok, raises) ==
    /\ capture.loops[t] = InRead(c)
    /\ IF ok
       THEN /\ error_count' = [error_count EXCEPT ![c] = 0]
            /\ frame_count' = [frame_count EXCEPT ![c] = @ + 1]
            /\ frame_buffer' = [frame_buffer EXCEPT
                  ![c] = DequeAppend(@, FrameBufferLen, frame_count[c] + 1)]
            /\ capture' = [capture EXCEPT
                  !.loops[t] = AfterCallback(c, raises),
                  !.callback_errors = IF raises THEN @ + 1 ELSE @]
       ELSE /\ error_count' = [error_count EXCEPT ![c] = @ + 1]
            /\ UNCHANGED <<frame_count, frame_buffer>>
            /\ SetLoop(t, CamAfter(c))
    /\ UNCHANGED <<camera, cam_running, releases>>
    /\ CaptureOnly

\* What a device may answer within the bounds of a run.
CanAnswer(c, ok, raises) ==
    /\ IF ok THEN frame_count[c] < MaxCaptureFrames
             ELSE error_count[c] < MaxReadErrors /\ ~raises
    /\ raises => capture.callback_errors < MaxCallbackErrors

\* The steps a capture thread takes by itself.
LoopControl ==
    \E t \in 1..Len(capture.loops) :
        \/ LoopTest(t)
        \/ \E c \in Cams : ReadEnter(t, c)

\* A device answering a read.
DeviceAnswers(c) ==
    \E t \in 1..Len(capture.loops), ok, raises \in BOOLEAN :
        CanAnswer(c, ok, raises) /\ ReadReturn(t, c, ok, raises)

CaptureCallers ==
    \/ \E ok \in [Cams -> BOOLEAN] :
          /\ capture.loops = <<>>
          /\ CamInitialize(AllEnabled, ok)
          /\ UNCHANGED audvars
          /\ MediaOnly
    \/ Len(capture.loops) < MaxCaptureThreads /\ cam_init = "ok"
          /\ StartCaptureThread
    \/ StopCaptureBegin("stop_capture")
    \/ CanRelease /\ StopCaptureBegin("shutdown")
    \/ StopCaptureJoinReturns
    \/ ShutdownClose

CaptureNext ==
    \/ CaptureCallers
    \/ LoopControl
    \/ DeviceAnswers("front")
    \/ DeviceAnswers("rear")

\* The capture threads keep running, and the rear device answers every
\* read; nothing obliges the front device to answer.
SpecCapture ==
    /\ Init
    /\ [][CaptureNext]_vars
    /\ WF_vars(LoopControl)
    /\ WF_vars(DeviceAnswers("rear"))

\* ------------------------------------------- WebRTCSignalingServer
MaxConns == 2     \* peer connections created in one run
MaxNotify == 2    \* "failed" notifications delivered in one run

\* create_peer_connection as handle_offer calls it: a new connection is
\* made and stored under the peer id, with its state-change handler.
CreatePeerConnection(p) ==
    /\ conns' = Append(conns, [peer |-> p, state |-> "new"])
    /\ handlers' = Append(handlers, EmptyBag)
    /\ teardown' = Append(teardown, [notified |-> 0, handled |-> 0,
                                     removed |-> 0, keyerrors |-> 0])
    /\ peers' = [peers EXCEPT ![p] = Len(conns) + 1]
    /\ UNCHANGED <<on_peer_disconnected, hook_calls, escaped, last_close, hook_saw>>

\* The application registers the peer-gone hook.
SetPeerDisconnectedHook ==
    /\ ~on_peer_disconnected
    /\ on_peer_disconnected' = TRUE
    /\ UNCHANGED <<peers, conns, handlers, teardown, hook_calls, escaped,
                   last_close, hook_saw>>

\* A coroutine suspended in close_peer_connection at 'await pc.close()':
\* pc is "handler" for a state-change handler, "close" for a call made by
\* the application; target is the connection whose close() is awaited.
Task(pc, target) == [pc |-> pc, target |-> target]

\* The tasks of connection c with one task replaced by its next position
\* (or dropped, when it has returned).
Moved(c, old, new) == (handlers[c] (-) SetToBag({old})) (+) SetToBag({new})
Ended(c, old) == handlers[c] (-) SetToBag({old})

\* The connection's state changes (or its "failed" state is notified
\* again): the event emitter starts one on_connectionstatechange task.
ConnectionStateChange(c, st) ==
    /\ conns[c].state \in {"new", "connected", "failed"}
    /\ st = "connected" => conns[c].state = "new"
    /\ conns' = [conns EXCEPT ![c].state = st]
    /\ handlers' = [handlers EXCEPT ![c] = @ (+) SetToBag({Task("start", 0)})]
    /\ teardown' = [teardown EXCEPT
          ![c].notified = @ + (IF st = "failed" THEN 1 ELSE 0)]
    /\ UNCHANGED <<peers, on_peer_disconnected, hook_calls, escaped, last_close,
                   hook_saw>>

\* del self.peers[peer_id] with the key absent raises KeyError.
RegistryHas(reg, p) == reg[p] # 0

\* A teardown that forgets to delete the entry.
RegistryDelNothing(reg, p) == reg

RegistryDel(reg, p) == [reg EXCEPT ![p] = 0]

\* Does the try/except of close_peer_connection catch the error raised
\* inside it?  (except Exception: it does.)
CloseCatches == TRUE

\* if self.on_peer_disconnected: await self.on_peer_disconnected(peer_id),
\* reached by the handler of connection c with the registry reg: the hook
\* is called in the same turn of the event loop as the statement before it.
HookCall(c, reg, cs) ==
    LET p == conns[c].peer
    IN  /\ hook_calls' = IF on_peer_disconnected
                         THEN [hook_calls EXCEPT ![p] = @ + 1]
                         ELSE hook_calls
        /\ hook_saw' = IF on_peer_disconnected
                       THEN [conn |-> c, present |-> RegistryHas(reg, p),
                             closed |-> cs[c].state = "closed"]
                       ELSE hook_saw

\* on_connectionstatechange up to its first suspension: it reads the state;
\* on "failed" it enters close_peer_connection, which looks the peer id up
\* and awaits close() on the connection it finds, or finds nothing and
\* returns, after which the handler goes on to the hook.
HandlerStart(c) ==
    LET st == conns[c].state
        p == conns[c].peer
    IN  /\ BagIn(Task("start", 0), handlers[c])
        /\ IF st = "failed" /\ RegistryHas(peers, p)
           THEN /\ handlers' = [handlers EXCEPT
                      ![c] = Moved(c, Task("start", 0), Task("handler", peers[p]))]
                /\ UNCHANGED <<teardown, hook_calls, hook_saw>>
           ELSE IF st = "failed"
           THEN /\ handlers' = [handlers EXCEPT ![c] = Ended(c, Task("start", 0))]
                /\ teardown' = [teardown EXCEPT ![c].handled = @ + 1]
                /\ HookCall(c, peers, conns)
           ELSE /\ handlers' = [handlers EXCEPT ![c] = Ended(c, Task("start", 0))]
                /\ UNCHANGED <<teardown, hook_calls, hook_saw>>
        /\ UNCHANGED <<peers, on_peer_disconnected, conns, escaped, last_close>>

\* await pc.close() returns in the handler of connection c: the connection
\* is closed; then the entry is deleted, or the KeyError is caught and
\* logged; close_peer_connection returns and the handler calls the hook.
HandlerCloseReturns(c, target) ==
    LET p == conns[c].peer
        closed == [conns EXCEPT ![target].state = "closed"]
        had == RegistryHas(peers, p)
        reg == IF had THEN RegistryDel(peers, p) ELSE peers
    IN  /\ BagIn(Task("handler", target), handlers[c])
        /\ conns' = closed
        /\ peers' = reg
        /\ handlers' = [handlers EXCEPT ![c] = Ended(c, Task("handler", target))]
        /\ escaped' = (escaped \/ (~had /\ ~CloseCatches))
        /\ IF had \/ CloseCatches
           THEN /\ HookCall(c, reg, closed)
                /\ teardown' = [teardown EXCEPT
                      ![c].handled = @ + 1,
                      ![IF had THEN peers[p] ELSE c].removed = @ + (IF had THEN 1 ELSE 0),
                      ![c].keyerrors = @ + (IF had THEN 0 ELSE 1)]
           ELSE /\ teardown' = [teardown EXCEPT ![c].keyerrors = @ + 1]
                /\ UNCHANGED <<hook_calls, hook_saw>>
        /\ UNCHANGED <<on_peer_disconnected, last_close>>

\* A close_peer_connection that treats an unknown peer id as an error.
CloseOutcomeStrict(reg, p) == IF RegistryHas(reg, p) THEN "close" ELSE "raise"

\* if peer_id in self.peers: ... (there is no else branch)
CloseOutcome(reg, p) == IF RegistryHas(reg, p) THEN "close" ELSE "noop"

\* close_peer_connection(p) called by the application, up to its first
\* suspension.
ClosePeerConnection(p) ==
    LET out == CloseOutcome(peers, p)
    IN  /\ last_close' = [peer |-> p, present |-> RegistryHas(peers, p),
                          n |-> last_close.n + 1]
        /\ handlers' = IF out = "close"
                       THEN [handlers EXCEPT
                               ![peers[p]] = @ (+) SetToBag({Task("close", peers[p])})]
                       ELSE handlers
        /\ escaped' = (escaped \/ out = "raise")
        /\ UNCHANGED <<peers, on_peer_disconnected, conns, teardown, hook_calls,
                       hook_saw>>

\* await pc.close() returns in a call made by the application.
CloseReturns(c) ==
    LET p == conns[c].peer
        had == RegistryHas(peers, p)
    IN  /\ BagIn(Task("close", c), handlers[c])
        /\ conns' = [conns EXCEPT ![c].state = "closed"]
        /\ peers' = IF had THEN RegistryDel(peers, p) ELSE peers
        /\ handlers' = [handlers EXCEPT ![c] = Ended(c, Task("close", c))]
        /\ escaped' = (escaped \/ (~had /\ ~CloseCatches))
        /\ teardown' = IF had
                       THEN [teardown EXCEPT ![peers[p]].removed = @ + 1]
                       ELSE [teardown EXCEPT ![c].keyerrors = @ + 1]
        /\ UNCHANGED <<on_peer_disconnected, hook_calls, hook_saw, last_close>>

\* Is an application-made close_peer_connection() suspended in close()?
ClosePending == \E c \in 1..Len(conns) : BagIn(Task("close", c), handlers[c])

RECURSIVE SumNotified(_)
SumNotified(n) == IF n = 0 THEN 0 ELSE teardown[n].notified + SumNotified(n - 1)

\* Offers arrive for peer ids that have no session; connections change
\* state; the event loop runs the handler tasks in any order.
PeerNext ==
    \/ \E p \in PeerIds :
          /\ Len(conns) < MaxConns
          /\ peers[p] = 0
          /\ CreatePeerConnection(p)
          /\ PeerOnly
    \/ SetPeerDisconnectedHook /\ PeerOnly
    \/ \E c \in 1..Len(conns) :
          ConnectionStateChange(c, "connected") /\ PeerOnly
    \/ \E c \in 1..Len(conns) :
          /\ SumNotified(Len(conns)) < MaxNotify
          /\ ConnectionStateChange(c, "failed")
          /\ PeerOnly
    \/ \E c \in 1..Len(conns) : HandlerStart(c) /\ PeerOnly
    \/ \E c, t \in 1..Len(conns) : HandlerCloseReturns(c, t) /\ PeerOnly

SpecPeers == Init /\ [][PeerNext]_vars

\* --------------------------------------------- sessions closed explicitly
\* The registry with the application closing peers (as shutdown() does),
\* whether or not they are registered, between offers.
MaxCloseConns == 2   \* peer connections created in one run
MaxCloses == 2       \* close_peer_connection() calls made by the application

CloseNext ==
    \/ \E p \in PeerIds :
          /\ Len(conns) < MaxCloseConns
          /\ peers[p] = 0
          /\ CreatePeerConnection(p)
          /\ PeerOnly
    \/ \E c \in 1..Len(conns) :
          ConnectionStateChange(c, "connected") /\ PeerOnly
    \/ \E c \in 1..Len(conns) : HandlerStart(c) /\ PeerOnly
    \/ \E p \in PeerIds :
          last_close.n < MaxCloses /\ ClosePeerConnection(p) /\ PeerOnly
    \/ \E c \in 1..Len(conns) : CloseReturns(c) /\ PeerOnly

SpecPeerClose == Init /\ [][CloseNext]_vars

\* ------------------------------------------ sessions ended by the remote
\* The registry with connections that fail or are closed by the remote
\* side; each terminal state is notified once.
MaxTerminalConns == 2   \* peer connections created in one run

\* get_peer_stats(): the keys of self.peers.
PeerStatsIds == {p \in PeerIds : peers[p] # 0}

Terminal(c) == conns[c].state \in {"failed", "closed"}

TerminalNext ==
    \/ \E p \in PeerIds :
          /\ Len(conns) < MaxTerminalConns
          /\ peers[p] = 0
          /\ CreatePeerConnection(p)
          /\ PeerOnly
    \/ \E c \in 1..Len(conns) :
          ConnectionStateChange(c, "connected") /\ PeerOnly
    \/ \E c \in 1..Len(conns), st \in {"failed", "closed"} :
          /\ ~Terminal(c)
          /\ ConnectionStateChange(c, st)
          /\ PeerOnly
    \/ \E c \in 1..Len(conns) : HandlerStart(c) /\ PeerOnly
    \/ \E c, t \in 1..Len(conns) : HandlerCloseReturns(c, t) /\ PeerOnly

SpecPeerTerminal == Init /\ [][TerminalNext]_vars

\* ------------------------------------------------------- negotiation
\* Offers whose negotiation may fail after the connection was created.
MaxOfferConns == 2   \* peer connections created in one run

OfferOutcomes == {"answer", "remote_description_raises", "create_answer_raises"}

\* handle_offer() up to its first suspension: create_peer_connection()
\* has stored the new connection, setRemoteDescription() is awaited.
HandleOffer(p) ==
    /\ last_offer.pc # "negotiating"
    /\ CreatePeerConnection(p)
    /\ last_offer' = [peer |-> p, conn |-> Len(conns) + 1, pc |-> "negotiating",
                      answer |-> FALSE]
    /\ UNCHANGED <<mvars, ctl, cvars, camvars, devvars, audvars, ovars, tvars,
                   playback, xvars>>

\* handle_offer() returns the answer, or an await raised and the except
\* block logs the error and returns None.
HandleOfferReturns(out) ==
    /\ last_offer.pc = "negotiating"
    /\ last_offer' = [last_offer EXCEPT !.pc = "returned",
                                        !.answer = (out = "answer")]
    /\ UNCHANGED <<mvars, ctl, cvars, camvars, devvars, audvars, pvars, ovars,
                   tvars, playback, xvars>>

OfferNext ==
    \/ \E p \in PeerIds :
          /\ Len(conns) < MaxOfferConns
          /\ peers[p] = 0
          /\ HandleOffer(p)
    \/ \E out \in OfferOutcomes : HandleOfferReturns(out)
    \/ \E c \in 1..Len(conns) :
          ConnectionStateChange(c, "connected") /\ PeerOnly
    \/ \E c \in 1..Len(conns) :
          /\ ~Terminal(c)
          /\ ConnectionStateChange(c, "failed")
          /\ PeerOnly
    \/ \E c \in 1..Len(conns) : HandlerStart(c) /\ PeerOnly
    \/ \E c, t \in 1..Len(conns) : HandlerCloseReturns(c, t) /\ PeerOnly

SpecOffer == Init /\ [][OfferNext]_vars

\* ------------------------------------------- offers for a known peer id
\* Offers arrive for any peer id, also one that has a session.
MaxReofferConns == 2    \* peer connections created in one run
MaxReofferNotify == 1   \* "failed" notifications delivered in one run

ReofferNext ==
    \/ \E p \in PeerIds :
          /\ Len(conns) < MaxReofferConns
          /\ CreatePeerConnection(p)
          /\ PeerOnly
    \/ \E c \in 1..Len(conns) :
          ConnectionStateChange(c, "connected") /\ PeerOnly
    \/ \E c \in 1..Len(conns) :
          /\ SumNotified(Len(conns)) < MaxReofferNotify
          /\ ConnectionStateChange(c, "failed")
          /\ PeerOnly
    \/ \E c \in 1..Len(conns) : HandlerStart(c) /\ PeerOnly
    \/ \E c, t \in 1..Len(conns) : HandlerCloseReturns(c, t) /\ PeerOnly

SpecReoffer == Init /\ [][ReofferNext]_vars

\* ------------------------------------------- the hook, session by session
\* The registry as in SpecPeers, with the invocations of the peer-gone
\* hook noted against the connection whose handler made them.
MaxHookConns == 2     \* peer connections created in one run
MaxHookNotify == 2    \* "failed" notifications delivered in one run

SessionOnly ==
    UNCHANGED <<mvars, ctl, cvars, camvars, devvars, audvars, ovars,
                last_offer, tvars, playback, capture, link_log, lock>>

\* await self.on_peer_disconnected(peer_id) in the handler of connection c.
HookNoted(c) ==
    signaling' = [signaling EXCEPT
        !.hooked = IF hook_calls' # hook_calls THEN @ (+) SetToBag({c}) ELSE @]

HookNext ==
    \/ \E p \in PeerIds :
          /\ Len(conns) < MaxHookConns
          /\ peers[p] = 0
          /\ CreatePeerConnection(p)
          /\ PeerOnly
    \/ SetPeerDisconnectedHook /\ PeerOnly
    \/ \E c \in 1..Len(conns) :
          ConnectionStateChange(c, "connected") /\ PeerOnly
    \/ \E c \in 1..Len(conns) :
          /\ SumNotified(Len(conns)) < MaxHookNotify
          /\ ConnectionStateChange(c, "failed")
          /\ PeerOnly
    \/ \E c \in 1..Len(conns) : HandlerStart(c) /\ HookNoted(c) /\ SessionOnly
    \/ \E c, t \in 1..Len(conns) :
          HandlerCloseReturns(c, t) /\ HookNoted(c) /\ SessionOnly

SpecHook == Init /\ [][HookNext]_vars

\* ------------------------------------------- shutting the registry down
\* WebRTCSignalingServer.shutdown() on its own: it closes the peer ids it
\* found registered when it began, one after the other; a close() may
\* raise, and an offer may be handled while shutdown() is suspended in
\* 'await pc.close()'.
MaxShutdownConns == 2     \* peer connections created in one run
MaxCloseErrors == 1       \* pc.close() calls that raise in one run

\* for peer_id in list(self.peers.keys()): the ids are read once.
ServerShutdownBegin ==
    /\ signaling.pc = "idle"
    /\ signaling' = [signaling EXCEPT !.pc = "closing", !.todo = PeerStatsIds]
    /\ UNCHANGED pvars
    /\ SessionOnly

\* await self.close_peer_connection(peer_id), for the next id of the list
ServerClosePeer(p) ==
    /\ signaling.pc = "closing"
    /\ p \in signaling.todo
    /\ ~ClosePending
    /\ signaling' = [signaling EXCEPT !.todo = @ \ {p}]
    /\ ClosePeerConnection(p)
    /\ SessionOnly

\* await pc.close() raises in close_peer_connection: the except clause logs
\* the error; 'del self.peers[peer_id]' is not reached.
CloseRaises(c) ==
    /\ BagIn(Task("close", c), handlers[c])
    /\ handlers' = [handlers EXCEPT ![c] = Ended(c, Task("close", c))]
    /\ UNCHANGED <<peers, on_peer_disconnected, conns, teardown, hook_calls,
                   escaped, last_close, hook_saw>>

\* The awaited close() comes back to close_peer_connection.
ServerCloseReturns(c, raises) ==
    /\ IF raises
       THEN /\ signaling.close_errors < MaxCloseErrors
            /\ CloseRaises(c)
            /\ signaling' = [signaling EXCEPT !.close_errors = @ + 1]
       ELSE /\ CloseReturns(c)
            /\ UNCHANGED signaling
    /\ SessionOnly

\* The loop is over: logger.info("WebRTC service shutdown complete")
ServerShutdownDone ==
    /\ signaling.pc = "closing"
    /\ signaling.todo = {}
    /\ ~ClosePending
    /\ signaling' = [signaling EXCEPT !.pc = "done"]
    /\ UNCHANGED pvars
    /\ SessionOnly

\* Offers are handled before shutdown() is called and at its await points.
OfferMayRun ==
    \/ signaling.pc = "idle"
    \/ signaling.pc = "closing" /\ ClosePending

ServerShutdownNext ==
    \/ \E p \in PeerIds :
          /\ OfferMayRun
          /\ Len(conns) < MaxShutdownConns
          /\ peers[p] = 0
          /\ CreatePeerConnection(p)
          /\ PeerOnly
    \/ \E c \in 1..Len(conns) :
          /\ OfferMayRun
          /\ ConnectionStateChange(c, "connected")
          /\ PeerOnly
    \/ \E c \in 1..Len(conns) : OfferMayRun /\ HandlerStart(c) /\ PeerOnly
    \/ ServerShutdownBegin
    \/ \E p \in PeerIds : ServerClosePeer(p)
    \/ \E c \in 1..Len(conns), raises \in BOOLEAN : ServerCloseReturns(c, raises)
    \/ ServerShutdownDone

SpecServerShutdown == Init /\ [][ServerShutdownNext]_vars

\* ----------------------------------------------------------- RoverSystem
\* The orchestrator: initialize(), start() and shutdown() called in turn
\* on the event-loop thread, with the capture loops and the drain thread
\* running beside it and offers arriving.  A join is modelled as returning
\* once the joined thread has exited.
MaxRoverFrames == 1   \* frames read from all devices in one run
MaxRoverConns == 1    \* peer connections created in one run

\* An initialize() that also insists on the motor link.
InitializeResultStrict(cam, audio, motor, encoder) == cam /\ motor

\* initialize(): 'return False' only when the camera manager failed; a
\* failure of the audio system, the motor link or the encoder is logged.
InitializeResult(cam, audio, motor, encoder) == cam

\* RoverSystem.initialize(): ok, aok, mok, eok are the outcomes of opening
\* each camera, of AudioProcessor.initialize(), of MotorController.connect()
\* and of the encoder's initialize().
RoverInitialize(ok, aok, mok, eok) ==
    LET cam == InitSuccess(ok["front"], ok["rear"])
        res == InitializeResult(cam, aok, mok, eok)
    IN  /\ rover.pc = "new"
        /\ CamInitialize(AllEnabled, ok)
        /\ IF cam
           THEN AudioInitialize(aok) /\ Connect(mok)
           ELSE UNCHANGED <<audvars, mvars>>
        /\ rover' = [rover EXCEPT
              !.pc = IF cam THEN "ready" ELSE "failed",
              !.is_initialized = res,
              !.result = IF res THEN "ok" ELSE "failed",
              !.collab = IF cam
                         THEN [audio |-> aok, motor |-> mok, encoder |-> eok]
                         ELSE @]
        /\ UNCHANGED <<ctl, cvars, hvars, devvars, pvars, order>>

\* RoverSystem.start(): start the capture loops, set is_running.
RoverStart ==
    /\ rover.pc = "ready"
    /\ rover.is_initialized
    /\ ~rover.is_running
    /\ CamStartCapture
    /\ IF stream_in # "none" THEN AudioStartCapture ELSE UNCHANGED audvars
    /\ rover' = [rover EXCEPT !.is_running = TRUE]
    /\ UNCHANGED <<mvars, ctl, cvars, hvars, devvars, pvars, order>>

\* A shutdown() that goes straight to the motor when nothing is running.
AfterStopEntrySkipCapture(running) ==
    IF running THEN "stop_camera" ELSE "shutdown_motor"

\* shutdown() awaits stop(), which returns at once unless is_running;
\* then it shuts the components down, the camera manager first.
AfterStopEntry(running) ==
    IF running THEN "stop_camera" ELSE "shutdown_camera"

ShutdownEnter ==
    /\ rover.pc = "ready"
    /\ rover' = [rover EXCEPT !.pc = AfterStopEntry(rover.is_running)]
    /\ UNCHANGED <<mvars, ctl, cvars, hvars, camvars, devvars, audvars, pvars, order>>

Reached(event) == order' = Append(order, event)

\* stop(): is_running = False; camera_manager.stop_capture()
StopCamera ==
    /\ rover.pc = "stop_camera"
    /\ rover' = [rover EXCEPT !.pc = "stop_audio", !.is_running = FALSE]
    /\ CamStopSignal
    /\ Reached("capture_stop")
    /\ UNCHANGED <<mvars, ctl, cvars, hvars, devvars, audvars, pvars>>

\* stop(): audio_processor.stop_capture(), once the camera join returned
StopAudio ==
    /\ rover.pc = "stop_audio"
    /\ cam_pc \in {"none", "exit"}
    /\ rover' = [rover EXCEPT !.pc = "stop_motor"]
    /\ AudioStopCapture
    /\ Reached("audio_stop")
    /\ UNCHANGED <<mvars, ctl, cvars, hvars, camvars, devvars, pvars>>

\* stop(): motor_controller.emergency_stop()
StopMotor ==
    /\ rover.pc = "stop_motor"
    /\ audio_pc \in {"none", "exit"}
    /\ rover' = [rover EXCEPT !.pc = "shutdown_camera"]
    /\ emergency_stop
    /\ Reached("estop")
    /\ UNCHANGED <<ctl, cvars, hvars, camvars, devvars, audvars, pvars>>

\* shutdown(): camera_manager.shutdown(), up to its join
ShutdownCamera ==
    /\ rover.pc = "shutdown_camera"
    /\ rover' = [rover EXCEPT !.pc = "shutdown_camera_close"]
    /\ CamShutdownBegin
    /\ Reached("capture_stop")
    /\ UNCHANGED <<mvars, ctl, cvars, hvars, audvars, pvars>>

ShutdownCameraClose ==
    /\ rover.pc = "shutdown_camera_close"
    /\ rover' = [rover EXCEPT !.pc = "shutdown_audio"]
    /\ CamShutdownFinish
    /\ UNCHANGED <<mvars, ctl, cvars, hvars, audvars, pvars, order>>

\* shutdown(): audio_processor.shutdown(), up to its join
ShutdownAudio ==
    /\ rover.pc = "shutdown_audio"
    /\ rover' = [rover EXCEPT !.pc = "shutdown_audio_close"]
    /\ AudioStopCapture
    /\ Reached("audio_stop")
    /\ UNCHANGED <<mvars, ctl, cvars, hvars, camvars, devvars, pvars>>

\* audio_processor.shutdown() after the join: the streams are closed.
ShutdownAudioClose ==
    /\ rover.pc = "shutdown_audio_close"
    /\ audio_pc \in {"none", "exit"}
    /\ rover' = [rover EXCEPT !.pc = "shutdown_motor"]
    /\ stream_in' = IF stream_in = "none" THEN "none" ELSE "closed"
    /\ UNCHANGED <<audio_running, audio_pc, captured_frames, capture_errors,
                   capture_buffer>>
    /\ UNCHANGED <<mvars, ctl, cvars, hvars, camvars, devvars, pvars, order>>

\* shutdown(): motor_controller.shutdown() begins with emergency_stop()
ShutdownMotor ==
    /\ rover.pc = "shutdown_motor"
    /\ rover' = [rover EXCEPT !.pc = "shutdown_motor_join"]
    /\ MotorShutdown
    /\ Reached("estop")
    /\ UNCHANGED <<ctl, cvars, hvars, camvars, devvars, audvars, pvars>>

\* ... and goes on to disconnect(), which joins the drain thread
ShutdownMotorJoin ==
    /\ rover.pc = "shutdown_motor_join"
    /\ rover' = [rover EXCEPT !.pc = "shutdown_motor_close"]
    /\ DisconnectBegin
    /\ UNCHANGED <<ctl, cvars, hvars, camvars, devvars, audvars, pvars, order>>

\* disconnect() returns; webrtc_service.shutdown() lists the peer ids.
ShutdownMotorClose ==
    /\ rover.pc = "shutdown_motor_close"
    /\ rover' = [rover EXCEPT !.pc = "shutdown_peers", !.todo = PeerStatsIds]
    /\ DisconnectFinish
    /\ Reached("motor_stopped")
    /\ UNCHANGED <<ctl, cvars, hvars, camvars, devvars, audvars, pvars>>

\* for peer_id in list(self.peers.keys()): await close_peer_connection(...)
ShutdownPeer(p) ==
    /\ rover.pc = "shutdown_peers"
    /\ p \in rover.todo
    /\ ~ClosePending
    /\ rover' = [rover EXCEPT !.todo = @ \ {p}]
    /\ ClosePeerConnection(p)
    /\ Reached("peer_close")
    /\ UNCHANGED <<mvars, ctl, cvars, hvars, camvars, devvars, audvars>>

ShutdownPeerReturns(c) ==
    /\ CloseReturns(c)
    /\ UNCHANGED <<mvars, ctl, cvars, hvars, camvars, devvars, audvars, ovars>>

ShutdownDone ==
    /\ rover.pc = "shutdown_peers"
    /\ rover.todo = {}
    /\ ~ClosePending
    /\ rover' = [rover EXCEPT !.pc = "done"]
    /\ UNCHANGED <<mvars, ctl, cvars, hvars, camvars, devvars, audvars, pvars, order>>

\* The loops that run beside the orchestrator, and the offers.
RoverThreads ==
    \/ CamLoopCheck /\ UNCHANGED audvars /\ MediaOnly
    \/ \E c \in Cams, ok \in BOOLEAN :
          /\ IF ok THEN FramesRead < MaxRoverFrames
                   ELSE error_count[c] < MaxReadErrors
          /\ CamRead(c, ok)
          /\ UNCHANGED audvars
          /\ MediaOnly
    \/ \E ok \in BOOLEAN :
          /\ IF ok THEN FramesRead < MaxRoverFrames
                   ELSE capture_errors < MaxReadErrors
          /\ AudioCapture(ok)
          /\ UNCHANGED camvars
          /\ MediaOnly
    \/ AudioLoopExit /\ UNCHANGED camvars /\ MediaOnly
    \/ Drain
    \/ \E p \in PeerIds :
          /\ rover.pc \in {"ready", "stop_camera", "shutdown_camera"}
          /\ Len(conns) < MaxRoverConns
          /\ peers[p] = 0
          /\ CreatePeerConnection(p)
          /\ PeerOnly

RoverNext ==
    \/ \E ok \in [Cams -> BOOLEAN], aok, mok, eok \in BOOLEAN :
          RoverInitialize(ok, aok, mok, eok)
    \/ RoverStart
    \/ ShutdownEnter
    \/ StopCamera
    \/ StopAudio
    \/ StopMotor
    \/ ShutdownCamera
    \/ ShutdownCameraClose
    \/ ShutdownAudio
    \/ ShutdownAudioClose
    \/ ShutdownMotor
    \/ ShutdownMotorJoin
    \/ ShutdownMotorClose
    \/ \E p \in PeerIds : ShutdownPeer(p)
    \/ \E c \in 1..Len(conns) : ShutdownPeerReturns(c)
    \/ ShutdownDone
    \/ RoverThreads

SpecRover == Init /\ [][RoverNext]_vars

\* ======================================================================
\* Emergency stop
\* ======================================================================

\* The write attempts made on the link since the latest emergency_stop().
SinceEStop == SubSeq(wire, estop.wlen + 1, Len(wire))

\* C1: after emergency_stop() on a connected controller, no command that
\* was in the queue at the time of the call is transmitted, and the next
\* frame written to the link is the zero-speed frame.
C1_EStopDiscardsPending ==
    (estop.called /\ estop.connected) =>
        /\ \A i \in 1..Len(SinceEStop) : SinceEStop[i].idx \notin estop.pending
        /\ (~estop.inflight /\ SinceEStop # <<>>) => SinceEStop[1].cmd = <<0, 0>>

\* C2: the zero-speed frame is written to the link by the emergency_stop()
\* call itself: the step that makes the call on a connected controller
\* appends the zero-speed frame to the link.
C2_EStopWritesInCall ==
    [][(estop'.tog # estop.tog /\ is_connected /\ serial_port = "open")
          => /\ Len(wire') = Len(wire) + 1
             /\ wire'[Len(wire')].cmd = <<0, 0>>]_vars

\* C3: after emergency_stop() no later motion call enqueues anything (the
\* controller has no clear operation, so the stop is never lifted).
C3_EStopDisablesSubmissions ==
    estop.called => Len(submitted) <= estop.nsub

\* C4: when handle_control_command has processed an emergency_stop message
\* on a connected controller, a zero-speed frame is eventually attempted on
\* the link after it.
ZeroSinceEStop == \E i \in 1..Len(SinceEStop) : SinceEStop[i].cmd = <<0, 0>>

C4_EStopMessageTransmitsZero ==
    (estop.called /\ estop.msg /\ estop.connected) ~> ZeroSinceEStop

\* ======================================================================
\* FIFO transmission
\* ======================================================================

\* The commands the drain threads hold between pop and write.
HeldCount == Cardinality({t \in 1..Len(threads) : threads[t].pc = "tx"})

\* C5: the i-th write attempt on the link carries the i-th submitted
\* command (none reordered, skipped or repeated), and every submitted
\* command is on the link, held by the drain loop, or still queued in
\* submission order.
C5_FifoTransmission ==
    /\ \A i \in 1..Len(wire) :
          /\ i <= Len(submitted)
          /\ wire[i].cmd = submitted[i]
          /\ wire[i].frame = BuildFrame(submitted[i][1], submitted[i][2])
    /\ Len(wire) + HeldCount + Len(command_queue) = Len(submitted)
    /\ command_queue =
          SubSeq(submitted, Len(submitted) - Len(command_queue) + 1, Len(submitted))

\* Three different commands went out on the link with no emergency stop.
C5_Witness ==
    /\ ~estop.called
    /\ Len(wire) = 3
    /\ wire[1].cmd # wire[2].cmd
    /\ wire[2].cmd # wire[3].cmd
    /\ \A i \in 1..3 : wire[i].ok

\* C15: a failed serial write adds exactly one to command_errors and
\* nothing to commands_sent, the command is neither put back in the queue
\* nor attempted again, and the drain thread goes on to its next tick with
\* the loop still running.
C15_WriteFailureCounted ==
    [][/\ (Len(wire') = Len(wire) + 1 /\ ~wire'[Len(wire')].ok) =>
             /\ command_errors' = command_errors + 1
             /\ commands_sent' = commands_sent
             /\ command_queue' = command_queue
             /\ is_running' = is_running
             /\ \E t \in 1..Len(threads) :
                   /\ threads[t].pc = "tx"
                   /\ threads'[t].pc = "check"
                   /\ threads'[t].cmd = None
       /\ \A i, j \in 1..Len(wire') : i < j => wire'[i].idx < wire'[j].idx
       /\ command_errors' = Cardinality({i \in 1..Len(wire') : ~wire'[i].ok})
       /\ commands_sent' = Cardinality({i \in 1..Len(wire') : wire'[i].ok})]_vars

\* The write of the first command failed; the next tick took the second
\* command and wrote it.
C15_Witness ==
    /\ Len(wire) = 2
    /\ ~wire[1].ok /\ wire[1].idx = 1
    /\ wire[2].ok /\ wire[2].idx = 2
    /\ command_errors = 1
    /\ commands_sent = 1

\* ======================================================================
\* Serial framing
\* ======================================================================

\* The receiver's check: the XOR of the first four bytes of a frame.
ReceiverChecksum(f) == Xor(Xor(Xor(f[1], f[2]), f[3]), f[4])

\* C8: every frame written to the link is the five bytes
\* [0xAA, 0x55, L, R, C] with L and R the low bytes (two's complement) of
\* the command's speeds and C = 0xAA xor 0x55 xor L xor R, which is what
\* the receiver recomputes.
C8_FrameFormat ==
    \A i \in 1..Len(wire) :
        LET f == wire[i].frame
            c == wire[i].cmd
        IN  /\ Len(f) = 5
            /\ \A k \in 1..5 : f[k] \in 0..255
            /\ f[1] = 170
            /\ f[2] = 85
            /\ f[3] = c[1] % 256
            /\ f[4] = c[2] % 256
            /\ f[5] = Xor(Xor(Xor(170, 85), f[3]), f[4])
            /\ f[5] = SpeedLimit - Xor(f[3], f[4])
            /\ ReceiverChecksum(f) = f[5]

\* The frame of the command (-200, 127) has been written.
C8_Witness ==
    /\ Len(wire) = 1
    /\ wire[1].ok
    /\ wire[1].cmd = <<-200, 127>>
    /\ wire[1].frame = <<170, 85, 56, 127, 184>>

\* ======================================================================
\* Motion intents
\* ======================================================================

\* Division by two truncating toward zero.
Trunc2(s) == IF s >= 0 THEN s \div 2 ELSE -((-s) \div 2)

\* The intent table of the design: intent -> (left, right).
IntentPair(c) ==
    CASE c.op = "move_forward" -> <<c.arg, c.arg>>
      [] c.op = "move_backward" -> <<-c.arg, -c.arg>>
      [] c.op = "turn_left" -> <<Trunc2(c.arg), c.arg>>
      [] c.op = "turn_right" -> <<c.arg, Trunc2(c.arg)>>
      [] c.op = "stop" -> <<0, 0>>

IntentOps == {"move_forward", "move_backward", "turn_left", "turn_right", "stop"}

\* C9: with the link connected, a motion intent with a speed s in [0,255]
\* appends to the queue exactly the pair of the intent table: forward (s,s),
\* backward (-s,-s), turn_left (s div 2, s), turn_right (s, s div 2),
\* stop (0,0).
C9_IntentMapping ==
    [][(/\ submitted' # submitted
        /\ last_call'.op \in IntentOps
        /\ (last_call'.op = "stop" \/ last_call'.arg \in 0..SpeedLimit))
          => /\ is_connected
             /\ command_queue' = Append(command_queue, IntentPair(last_call'))]_vars

\* turn_left(150) has enqueued (75, 150).
C9_Witness ==
    /\ is_connected
    /\ last_call = [op |-> "turn_left", arg |-> 150]
    /\ command_queue = << <<75, 150>> >>

\* The commands in the queue or held by a drain thread.
QueuedOrHeld ==
    {command_queue[i] : i \in 1..Len(command_queue)}
    \cup {threads[t].cmd : t \in {u \in 1..Len(threads) : threads[u].pc = "tx"}}

\* C12: every command in the queue (or taken from it and not yet written)
\* has both speeds in [-255,255], whatever speeds were passed to the
\* motion methods, and the left and right bytes of every frame on the link
\* are in 0..255.
C12_SpeedsInRange ==
    /\ \A c \in QueuedOrHeld :
          /\ c[1] \in (-255)..255
          /\ c[2] \in (-255)..255
    /\ \A i \in 1..Len(submitted) :
          /\ submitted[i][1] \in (-255)..255
          /\ submitted[i][2] \in (-255)..255
    /\ \A i \in 1..Len(wire) :
          /\ wire[i].frame[3] \in 0..255
          /\ wire[i].frame[4] \in 0..255
    /\ command_errors > 0 => \E i \in 1..Len(wire) : ~wire[i].ok

\* set_motor_speed(-260, 300) was clamped to (-255, 255), whose bytes 1 and
\* 255 are on the link.
C12_Witness ==
    /\ last_call = [op |-> "set_motor_speed", arg |-> <<-260, 300>>]
    /\ Len(wire) = 1
    /\ wire[1].cmd = <<-255, 255>>
    /\ wire[1].frame[3] = 1
    /\ wire[1].frame[4] = 255

\* C13 as stated: every motion call, in every controller state, appends
\* exactly one command (the speeds it has just stored) to the tail of the
\* queue.
C13_AlwaysEnqueued ==
    [][last_call' # last_call
          => command_queue' = Append(command_queue, <<left_speed', right_speed'>>)]_vars

\* C13 (amended): a motion call appends exactly one command to the tail of
\* the queue when the link is connected and leaves the queue as it was when
\* it is not (before connect(), after a failed connect(), after
\* disconnect()); the queue never grows in any other way.
C13_EnqueuedWhenConnected ==
    [][/\ last_call' # last_call =>
             IF is_connected
             THEN command_queue' = Append(command_queue, <<left_speed', right_speed'>>)
             ELSE command_queue' = command_queue
       /\ Len(command_queue') > Len(command_queue) =>
             /\ is_connected
             /\ command_queue' = Append(command_queue, <<left_speed', right_speed'>>)
       /\ ~is_connected => command_queue' = command_queue]_vars

\* After a disconnect, move_forward(150) stored its speeds and enqueued
\* nothing.
C13_Witness ==
    /\ ~is_connected
    /\ serial_port = "closed"
    /\ last_call = [op |-> "move_forward", arg |-> 150]
    /\ left_speed = 150
    /\ submitted = <<>>
    /\ command_queue = <<>>

\* The messages the design calls unrecognized or malformed.
Unrecognized(m) ==
    \/ m.json # "object"
    \/ m.type \notin {"motor", "camera", "system"}
    \/ m.type = "motor"
          /\ m.action \notin {"forward", "backward", "left", "right", "stop"}
    \/ m.type = "camera" /\ m.action \notin {"switch_front", "switch_rear"}
    \/ m.type = "system" /\ m.action # "emergency_stop"

\* C17: handling a control message that does not parse, or whose type or
\* action is not recognized, raises nothing, enqueues nothing and leaves
\* left_speed, right_speed and current_direction as they were.
C17_UnknownMessageDropped ==
    [][(ctl'.tog # ctl.tog /\ Unrecognized(ctl'.msg)) =>
          /\ ~ctl'.raised
          /\ command_queue' = command_queue
          /\ submitted' = submitted
          /\ left_speed' = left_speed
          /\ right_speed' = right_speed
          /\ current_direction' = current_direction]_vars

\* With forward(150) queued on a connected controller, a motor message
\* with the unknown action "spin" was handled and changed nothing.
C17_Witness ==
    /\ ctl.msg = Msg("motor", "spin", 150)
    /\ ~ctl.raised
    /\ is_connected
    /\ command_queue = << <<150, 150>> >>
    /\ left_speed = 150
    /\ current_direction = "FORWARD"

\* ======================================================================
\* Speed encoding
\* ======================================================================

\* C7 as stated: on [-255,255] two distinct speeds never share a byte and
\* decoding the byte gives the speed back.
C7_BijectionRoundTrip ==
    codec_out # None =>
        /\ codec_in[1] # codec_in[2] => codec_out[1] # codec_out[2]
        /\ byte_to_speed(codec_out[1]) = codec_in[1]

\* C7 (amended): for every speed s in [-255,255] the byte is in 0..255 and
\* is s modulo 256 (the two's-complement low byte); within [-128,127]
\* distinct speeds have distinct bytes and decoding returns the speed.
C7_LowByteRoundTrip ==
    codec_out # None =>
        /\ \A k \in 1..2 :
              /\ codec_out[k] \in 0..255
              /\ codec_out[k] = codec_in[k] % 256
              /\ codec_in[k] \in (-128)..127 => byte_to_speed(codec_out[k]) = codec_in[k]
        /\ (/\ codec_in[1] \in (-128)..127
            /\ codec_in[2] \in (-128)..127
            /\ codec_in[1] # codec_in[2]) => codec_out[1] # codec_out[2]

\* -128 and 127 have been encoded as 128 and 127.
C7_Witness ==
    /\ codec_in = <<-128, 127>>
    /\ codec_out = <<128, 127>>

\* ======================================================================
\* Bounded frame buffers
\* ======================================================================

\* The last Min(n, count) frames of a device, oldest first.
LastFrames(n, count) ==
    [i \in 1..(IF count < n THEN count ELSE n) |->
        i + (IF count < n THEN 0 ELSE count - n)]

\* C6: each buffer holds at most its capacity (3 for the cameras, 10 for
\* the microphone) and exactly the last min(capacity, pushes) frames
\* pushed, in arrival order.
C6_BoundedBuffers ==
    /\ \A c \in Cams :
          /\ Len(frame_buffer[c]) <= 3
          /\ frame_buffer[c] = LastFrames(3, frame_count[c])
    /\ Len(capture_buffer) <= 10
    /\ capture_buffer = LastFrames(10, captured_frames)

\* The front buffer has evicted its first frame and the microphone buffer
\* its first frame.
C6_Witness ==
    /\ frame_count["front"] = 4
    /\ frame_buffer["front"] = <<2, 3, 4>>
    /\ captured_frames = 11
    /\ Len(capture_buffer) = 10
    /\ capture_buffer[1] = 2
    /\ capture_buffer[10] = 11

\* ======================================================================
\* Camera manager
\* ======================================================================

\* C11: initialize() returns success exactly when at least one enabled
\* camera opened; each camera is present exactly when it is enabled and
\* opened, so with one device opening and the other failing there is one
\* active feed, and a camera that is absent is never read by the loop.
C11_PartialInitSucceeds ==
    cam_init # "none" =>
        /\ cam_init = "ok" <=> (\E c \in Cams : cam_cfg.enabled[c] /\ cam_cfg.opens[c])
        /\ \A c \in Cams :
              /\ camera[c] = "open" <=> (cam_cfg.enabled[c] /\ cam_cfg.opens[c])
              /\ touched[c] => (cam_cfg.enabled[c] /\ cam_cfg.opens[c])
        /\ ((\A c \in Cams : cam_cfg.enabled[c])
              /\ cam_cfg.opens["front"] /\ ~cam_cfg.opens["rear"])
              => /\ cam_init = "ok"
                 /\ Cardinality({c \in Cams : camera[c] = "open"}) = 1

\* Device 0 opened, device 1 did not; the loop has run whole iterations
\* and read frames from the front camera only.
C11_Witness ==
    /\ cam_init = "ok"
    /\ cam_cfg.enabled = [c \in Cams |-> TRUE]
    /\ cam_cfg.opens = [c \in Cams |-> c = "front"]
    /\ frame_count["front"] = 2
    /\ touched["front"] /\ ~touched["rear"]

\* The frames pushed to a buffer so far.
Pushes(b) == IF b = "audio" THEN captured_frames ELSE frame_count[b]

\* C14: a latest-frame getter returns the most recently pushed frame of its
\* buffer (frames are numbered in push order), returns None exactly when
\* nothing has been pushed to that buffer, and leaves every buffer as it was.
C14_LatestFrame ==
    [][got' # got =>
          /\ got'.frame = (IF Pushes(got'.buf) = 0 THEN NoFrame ELSE Pushes(got'.buf))
          /\ (got'.frame = NoFrame) <=> (Pushes(got'.buf) = 0)
          /\ frame_buffer' = frame_buffer
          /\ capture_buffer' = capture_buffer]_vars

\* get_rear_frame returned frame 5 from a buffer that had evicted frames.
C14_Witness ==
    /\ got = [buf |-> "rear", frame |-> 5]
    /\ frame_buffer["rear"] = <<3, 4, 5>>

\* C16: a failed read of an open camera adds one to its error counter and
\* the loop goes on to its next step, below and above the warning
\* threshold; the loop leaves only when it finds the flag cleared, which
\* only stop_capture() does.
C16_LoopSurvivesReadFailures ==
    [][/\ \A c \in Cams :
            (cam_pc = c /\ cam_pc' # cam_pc /\ camera[c] = "open"
                  /\ frame_count'[c] = frame_count[c])
               => /\ error_count'[c] = error_count[c] + 1
                  /\ cam_pc' = (IF c = "front" THEN "rear" ELSE "check")
                  /\ cam_running' = cam_running
       /\ (cam_pc' = "exit" /\ cam_pc # "exit")
               => (cam_pc = "check" /\ ~cam_running /\ stop_signalled)
       /\ (cam_running /\ ~cam_running') => stop_signalled']_vars

\* Twelve reads of the front camera failed in a row and the loop is still
\* polling.
C16_Witness ==
    /\ error_count["front"] = ErrorThreshold + 2
    /\ cam_running
    /\ cam_pc \in {"check", "front", "rear"}

\* ======================================================================
\* Session teardown
\* ======================================================================

DisconnectReturns == main_pc = "join" /\ main_pc' = "idle"

\* Every command submitted so far has been dequeued and its write
\* attempted; nothing is queued or held.
AllDrained ==
    /\ command_queue = <<>>
    /\ popped = Len(submitted)
    /\ ~InFlight
    /\ \A i \in 1..Len(submitted) : \E j \in 1..Len(wire) : wire[j].idx = i

\* C30: once stop_playback() has returned, the playback loop has
\* terminated: no playback thread is left consuming the playback buffer.
C30_PlaybackStopped == playback.returned => playback.live = 0

\* C29: once its stop flag is cleared, the camera loop, the audio capture
\* loop and the drain loop each leave their loop, and a loop that has left
\* does not begin another iteration.
C29_LoopsStop ==
    /\ stop_signalled ~> (cam_pc = "exit")
    /\ (audio_pc = "loop" /\ ~audio_running) ~> (audio_pc = "exit")
    /\ (threads # <<>> /\ ~is_running) ~>
          (\A t \in 1..Len(threads) : threads[t].pc = "exit")
    /\ [][/\ cam_pc = "exit" => cam_pc' = "exit"
          /\ audio_pc = "exit" => audio_pc' = "exit"
          /\ \A t \in 1..Len(threads) :
                threads[t].pc = "exit" => threads'[t].pc = "exit"]_vars

\* All three loops were stopped while running and have exited; the camera
\* loop had read a frame.
C29_Witness ==
    /\ stop_signalled
    /\ cam_pc = "exit"
    /\ audio_pc = "exit"
    /\ threads # <<>>
    /\ threads[1].pc = "exit"
    /\ FramesRead > 0
    /\ main_pc = "idle"
    /\ ~is_connected

\* C28: under weak fairness of the drain loop, again and again every
\* command submitted so far has been dequeued and its write attempted and
\* the queue is empty, unless the controller is disconnected.
C28_QueueDrains == []<>(AllDrained \/ ~(is_connected /\ is_running))

\* Every submission of the run was written while the link stayed up.
C28_Witness ==
    /\ is_connected
    /\ is_running
    /\ Len(submitted) = MaxSubmit
    /\ Len(wire) = MaxSubmit
    /\ command_queue = <<>>

\* C27: the link receives at most one frame in an iteration of the drain
\* loop (so k frames take at least k iterations), none in an iteration
\* that found the queue empty, and no more frames than were submitted.
C27_OneFramePerTick ==
    /\ \A i, j \in 1..Len(tick_log.wrote) :
          i < j => tick_log.wrote[i] < tick_log.wrote[j]
    /\ \A i \in 1..Len(tick_log.wrote) : tick_log.wrote[i] \notin tick_log.empty
    /\ Len(wire) = Len(tick_log.wrote)
    /\ Len(wire) <= ticks
    /\ Len(wire) <= Len(submitted)

\* A burst of three submissions, all written, in three different ticks,
\* after a tick that found the queue empty.
C27_Witness ==
    /\ Len(submitted) = 3
    /\ Len(tick_log.wrote) = 3
    /\ 1 \in tick_log.empty
    /\ command_queue = <<>>

\* C26: when MotorController.shutdown() has returned on a controller that
\* was connected, the zero-speed command its emergency stop submitted has
\* been written to the serial link.
C26_ShutdownWritesZero ==
    (/\ main_pc = "idle"
     /\ ~is_connected
     /\ last_call.op = "emergency_stop"
     /\ ~estop.msg
     /\ estop.connected) =>
        \E i \in 1..Len(wire) :
            /\ wire[i].idx = estop.nsub
            /\ wire[i].cmd = <<0, 0>>

\* C25: when handle_offer() has returned without an answer, the
\* connection it created is not registered under the peer id.
C25_FailedOfferTornDown ==
    (last_offer.pc = "returned" /\ ~last_offer.answer) =>
        peers[last_offer.peer] # last_offer.conn

Before(a, i) == \E j \in 1..(i - 1) : order[j] = a

\* C24: in shutdown(), the camera and audio capture loops have been
\* signalled to stop before any emergency stop is issued, and the motor
\* channel has been stopped before any peer session is closed.
C24_StopOrder ==
    \A i \in 1..Len(order) :
        /\ order[i] = "estop" =>
              (Before("capture_stop", i) /\ Before("audio_stop", i))
        /\ order[i] = "peer_close" =>
              (Before("estop", i) /\ Before("motor_stopped", i))

\* shutdown() of a system that was not running, with one peer session.
C24_Witness ==
    /\ rover.pc = "done"
    /\ order = <<"capture_stop", "audio_stop", "estop", "motor_stopped",
                 "peer_close">>

\* C22: a connection that has reached a terminal state and whose
\* state-change notifications have all been handled is no longer the
\* session registered under its peer id, nor counted by get_peer_stats().
C22_TerminalSessionRemoved ==
    \A c \in 1..Len(conns) :
        (Terminal(c) /\ handlers[c] = EmptyBag) =>
            (peers[conns[c].peer] # c /\
             (conns[c].peer \in PeerStatsIds => peers[conns[c].peer] # c))

\* C21: the device of a camera is released at most once, however often
\* USBCamera.close() and CameraManager.shutdown() are called.
C21_ReleasedAtMostOnce == \A c \in Cams : releases[c] <= 1

C18_CloseAbsentIsNoop ==
    [][(last_close'.n # last_close.n /\ peers[last_close'.peer] = 0) =>
          /\ ~escaped'
          /\ peers' = peers
          /\ conns' = conns
          /\ handlers' = handlers
          /\ teardown' = teardown]_vars

\* Peer p1 was closed by the application and removed; the second close of
\* p1 found it absent and the registry is as the first close left it.
C18_Witness ==
    /\ Len(conns) >= 1
    /\ conns[1].peer = "p1"
    /\ conns[1].state = "closed"
    /\ teardown[1].notified = 0
    /\ teardown[1].removed = 1
    /\ last_close = [peer |-> "p1", present |-> FALSE, n |-> 2]
    /\ peers["p1"] = 0
    /\ ~escaped

\* C19: whenever the peer-gone hook is invoked for a failed connection,
\* that connection has been closed and its peer id is no longer in the
\* registry: close and removal come before the hook.
C19_TeardownBeforeHook ==
    /\ hook_saw.conn # 0 => (hook_saw.closed /\ ~hook_saw.present)
    /\ \A c \in 1..Len(conns) :
          (on_peer_disconnected /\ teardown[c].handled > 0 /\ hook_saw.conn = c)
             => conns[c].state = "closed"

C31_NoReleaseUnderRead ==
    [][\A c \in Cams :
          releases'[c] > releases[c] =>
              \A t \in LiveLoops : capture.loops[t] # InRead(c)]_vars

\* The rear camera is due a read: capture is on, a capture thread is
\* alive, the rear device is open and has not been read yet.
RearDue ==
    /\ cam_running
    /\ LiveLoops # {}
    /\ camera["rear"] = "open"
    /\ "rear" \notin capture.closed
    /\ frame_count["rear"] = 0
    /\ error_count["rear"] = 0

\* C32: the rear camera is captured independently of the front one: while
\* capture is on, the rear device is read (and its frame pushed) whether
\* or not a front read has returned.
C32_RearIndependent ==
    RearDue ~> (~RearDue \/ \E t \in LiveLoops : capture.loops[t] = "rear_in")

\* C37: at most one capture loop is alive, whatever start_capture() and
\* stop_capture() calls were made and however their joins ended.
C37_OneCaptureLoop == Cardinality(LiveLoops) <= 1

\* ------------------------------------------------ motor status
\* C40: the motor status is self-consistent: whenever current_direction
\* is STOP, left_speed and right_speed are both 0.
C40_StopMeansZero ==
    current_direction = "STOP" => left_speed = 0 /\ right_speed = 0

\* ------------------------------------------------ reconnecting
\* C36: at most one drain loop is alive, whatever connect() and
\* disconnect() calls were made.
C36_OneDrainLoop == Cardinality(LiveDrains) <= 1

\* C38: a command that was in the queue when disconnect() was called is
\* not written to the link after a later connect().
C38_StaleNeverWritten == link_log.stale \cap Written = {}

\* ------------------------------------------------ queue_lock
\* Drain thread t holds queue_lock.
DrainHolds(t) == lock.owner = "drain" /\ lock.thread = t

\* C33: the command queue is appended to only by the caller holding
\* queue_lock and popped from only by a drain thread holding it, and no
\* drain thread holds the lock while it has a frame to write, so the lock
\* is free for a submitter throughout a serial write.
C33_LockDiscipline ==
    /\ [][/\ Len(command_queue') > Len(command_queue) => lock.owner = "caller"
          /\ Len(command_queue') < Len(command_queue) => lock.owner = "drain"]_vars
    /\ [](\A t \in 1..Len(threads) : threads[t].pc = "tx" => ~DrainHolds(t))

\* The caller is inside the block, appending, while the drain thread is
\* about to write the command it popped.
C33_Witness ==
    /\ lock.caller_pc = "locked"
    /\ \E t \in 1..Len(threads) : threads[t].pc = "tx"

\* ------------------------------------------------ sessions
\* C34: once WebRTCSignalingServer.shutdown() has completed, the registry
\* is empty and every connection that was made is closed.
C34_ShutdownClosesAll ==
    signaling.pc = "done" =>
        /\ PeerStatsIds = {}
        /\ \A c \in 1..Len(conns) : conns[c].state = "closed"

\* C35: there is one session per peer id: a connection that is not closed
\* is the one the registry holds for its peer id, and a connection is
\* closed only after its own failure was notified, never on behalf of an
\* earlier connection of the same peer id.
C35_OneSessionPerPeer ==
    \A c \in 1..Len(conns) :
        /\ conns[c].state # "closed" => peers[conns[c].peer] = c
        /\ conns[c].state = "closed" => teardown[c].notified > 0

\* C39: the peer-gone hook is invoked at most once on behalf of a
\* session, however often its "failed" state is notified.
C39_HookOncePerSession ==
    \A c \in 1..Len(conns) : CopiesIn(c, signaling.hooked) <= 1


====
